---- MODULE Spec2Model ----
(***************************************************************************)
(* Author and book services of simple-gin-crud over their GORM/PostgreSQL  *)
(* repositories.  Every repository call is one SQL statement and therefore *)
(* one atomic step; a service call is the sequence of its repository       *)
(* calls, and concurrent requests interleave between those steps.          *)
(***************************************************************************)
EXTENDS Integers, Sequences, FiniteSets, TLC

\* ------------------------------------------------------------------ bounds
MaxAuthorRows == 2
MaxBookRows == 2
MaxCalls == 4
MaxPage == 3
MaxPageSize == 3
MaxTotalItems == 7
MaxStrLen == 3
MaxRequests == 3
MaxCodeLen == 4
MaxTransactions == 4
MaxWrites == 2

\* concurrent requests in flight and the request values they carry
Procs == {"p1", "p2"}
Before(p, q) == p = q \/ p = "p1"
PenNames == {"A", "B"}
BirthYears == {0, 1900}
BookNames == {"", "N1"}
ISBNs == {"I1", "I2"}

\* ------------------------------------------------------------ result codes
Success == "20000"
InternalError == "50000"
BookNotFound == "40401"
AuthorNotFound == "40402"
BookAlreadyExists == "40901"
AuthorAlreadyExists == "40902"
Updated == "20010"
Deleted == "20020"
Created == "20100"
BadRequest == "40000"
NotFound == "40400"
Conflict == "40900"
UnprocessableEntity == "42200"
BindingError == "40010"
UUIDFormatInvalid == "40011"
ValidationError == "40020"

\* a nil pointer, and an identifier no row was ever stored under
Nil == 0

\* a check of a service passed: the call goes on to its next repository call
Continue == ""

AuthorIDs == 1..MaxAuthorRows
BookIDs == 1..MaxBookRows

\* the tables and the service calls in flight; the query strings of a list
\* request, the pagination request parsed from them, a total count and the
\* pagination response built for it; the last HTTP exchange of the handlers;
\* a code string and the HTTP status computed from it; the transaction of
\* the transaction manager
VARIABLES authors, books, calls, ncalls,
          query, pagination, totalItems, response, http,
          codeString, httpCode, tx

pageVars == <<query, pagination, totalItems, response>>

libVars == <<codeString, httpCode, tx>>

vars == <<authors, books, calls, ncalls, pageVars, libVars, http>>

\* GetHTTPCode was not called yet
NoStatus == [called |-> FALSE, status |-> 0]

\* no transaction was asked for yet: nothing begun, run, committed or rolled
\* back, nothing returned
NoTx ==
    [pc |-> "idle", n |-> 0, begun |-> 0, beginErr |-> "", runs |-> 0,
     fnErr |-> "", commits |-> 0, rollbacks |-> 0, ret |-> "",
     pending |-> 0, stored |-> 0]

\* no query string given: c.Query returns ""; a string is the sequence of
\* its characters
NoQuery == [page |-> <<>>, pageSize |-> <<>>]

\* the data of a response: what kind of value it is, the id of an entity,
\* the strings of a text or of a list of messages, the page of a list.  NoData is the untyped nil
\* that "omitempty" leaves out of the JSON; any other value is written
NoPage ==
    [Items |-> <<>>,
     Pagination |-> [Page |-> 0, PageSize |-> 0, TotalPages |-> 0, TotalItems |-> 0]]

\* no pagination parsed yet, no pagination response built yet
NotParsed == [pagination |-> [Page |-> 0, PageSize |-> 0], errors |-> <<>>]

NoResponse == NoPage.Pagination

Data(kind, id, strings) ==
    [kind |-> kind, id |-> id, strings |-> strings, page |-> NoPage]

PageData(page) == [kind |-> "page", id |-> 0, strings |-> <<>>, page |-> page]

NoData == Data("nil", 0, <<>>)

\* no pagination request was passed to a service
NoPagination == [Page |-> 0, PageSize |-> 0]

\* no HTTP request was handled yet
NoRequest ==
    [handler |-> "", status |-> 0, code |-> "", message |-> "", data |-> NoData,
     called |-> FALSE, pagination |-> NoPagination]

\* ------------------------------------------------------------- the tables
\* Author: BaseModel (id = position in the table, deleted_at) + columns
Author(penName, birthYear) ==
    [penName |-> penName, birthYear |-> birthYear, deleted |-> FALSE]

\* Book: BaseModel + author_id, name, isbn
Book(authorID, name, isbn) ==
    [authorID |-> authorID, name |-> name, isbn |-> isbn, deleted |-> FALSE]

\* rows a query sees: GORM adds "deleted_at IS NULL" to every statement
Live(tbl) == {i \in 1..Len(tbl) : ~tbl[i].deleted}

\* db.First: ORDER BY primary key LIMIT 1, ErrRecordNotFound mapped to nil
First(rows) == IF rows = {} THEN Nil ELSE CHOOSE i \in rows : \A j \in rows : i <= j

\* -------------------------------------------------------------- pagination
\* strconv.Atoi: an optional sign, then one or more decimal digits; anything
\* else is a syntax error.  A string is the sequence of its characters.
DigitChars == <<"0", "1", "2", "3", "4", "5", "6", "7", "8", "9">>

Digits == {DigitChars[i] : i \in 1..Len(DigitChars)}

DigitValue(ch) == (CHOOSE i \in 1..Len(DigitChars) : DigitChars[i] = ch) - 1

RECURSIVE ParseDigits(_)
ParseDigits(s) ==
    IF s = <<>> THEN 0
    ELSE 10 * ParseDigits(SubSeq(s, 1, Len(s) - 1)) + DigitValue(s[Len(s)])

\* the largest int, 9223372036854775807, and the magnitude of the smallest
MaxInt64 ==
    <<"9", "2", "2", "3", "3", "7", "2", "0", "3", "6",
      "8", "5", "4", "7", "7", "5", "8", "0", "7">>

MinInt64 == [MaxInt64 EXCEPT ![Len(MaxInt64)] = "8"]

RECURSIVE TrimZeros(_)
TrimZeros(s) ==
    IF s # <<>> /\ s[1] = "0" THEN TrimZeros(Tail(s)) ELSE s

\* the digits a, without leading zeros, denote a larger number than limit
Larger(a, limit) ==
    \/ Len(a) > Len(limit)
    \/ /\ Len(a) = Len(limit)
       /\ \E i \in 1..Len(a) :
             /\ DigitValue(a[i]) > DigitValue(limit[i])
             /\ \A j \in 1..(i - 1) : a[j] = limit[j]

\* a value out of the range of int is a range error; the value returned with
\* an error is never read by the callers
Atoi(s) ==
    LET signed == s # <<>> /\ s[1] \in {"+", "-"}
        body == IF signed THEN Tail(s) ELSE s
        limit == IF signed /\ s[1] = "-" THEN MinInt64 ELSE MaxInt64
    IN IF body = <<>> \/ \E i \in 1..Len(body) : body[i] \notin Digits
       THEN [n |-> 0, err |-> TRUE]
       ELSE IF Larger(TrimZeros(body), limit)
       THEN [n |-> 0, err |-> TRUE]
       ELSE [n |-> IF s[1] = "-" THEN 0 - ParseDigits(body) ELSE ParseDigits(body),
             err |-> FALSE]

\* a parser that takes any number, positive or not
AcceptsAnyNumber(s) ==
    s # <<>> /\ ~Atoi(s).err

\* "if n, err := strconv.Atoi(s); err == nil && n > 0" under "if s != """
AcceptsPositive(s) ==
    s # <<>> /\ ~Atoi(s).err /\ Atoi(s).n > 0

NewPaginationRequest(page, pageSize) ==
    LET pageErrors == IF page # <<>> /\ ~AcceptsPositive(page)
                      THEN <<"Page must be greater than 0">> ELSE <<>>
        pageSizeErrors == IF pageSize # <<>> /\ ~AcceptsPositive(pageSize)
                          THEN <<"Page size must be greater than 0">> ELSE <<>>
    IN [pagination |->
           [Page |-> IF AcceptsPositive(page) THEN Atoi(page).n ELSE 1,
            PageSize |-> IF AcceptsPositive(pageSize) THEN Atoi(pageSize).n ELSE 10],
        errors |-> pageErrors \o pageSizeErrors]

GetOffset(p) == (p.Page - 1) * p.PageSize

GetLimit(p) == p.PageSize

\* Go's integer division truncates toward zero
Quotient(a, b) ==
    IF (a >= 0) = (b > 0) THEN (IF a >= 0 THEN a ELSE 0 - a) \div (IF b > 0 THEN b ELSE 0 - b)
    ELSE 0 - ((IF a >= 0 THEN a ELSE 0 - a) \div (IF b > 0 THEN b ELSE 0 - b))

\* a total page count that is not raised to 1
TotalPagesNoMinimum(req, total) ==
    Quotient(total + req.PageSize - 1, req.PageSize)

TotalPages(req, total) ==
    LET totalPages == Quotient(total + req.PageSize - 1, req.PageSize)
    IN IF totalPages < 1 THEN 1 ELSE totalPages

NewPaginationResponse(req, total) ==
    [Page |-> req.Page, PageSize |-> req.PageSize,
     TotalPages |-> TotalPages(req, total), TotalItems |-> total]

NewPaginationDataResponse(items, req, total) ==
    [Items |-> items, Pagination |-> NewPaginationResponse(req, total)]

\* ---------------------------------------------------------- code contract
\* the characters of a code string
Spell(code) ==
    CASE code = Success -> <<"2", "0", "0", "0", "0">>
      [] code = Updated -> <<"2", "0", "0", "1", "0">>
      [] code = Deleted -> <<"2", "0", "0", "2", "0">>
      [] code = Created -> <<"2", "0", "1", "0", "0">>
      [] code = BadRequest -> <<"4", "0", "0", "0", "0">>
      [] code = NotFound -> <<"4", "0", "4", "0", "0">>
      [] code = Conflict -> <<"4", "0", "9", "0", "0">>
      [] code = UnprocessableEntity -> <<"4", "2", "2", "0", "0">>
      [] code = InternalError -> <<"5", "0", "0", "0", "0">>
      [] code = BindingError -> <<"4", "0", "0", "1", "0">>
      [] code = UUIDFormatInvalid -> <<"4", "0", "0", "1", "1">>
      [] code = ValidationError -> <<"4", "0", "0", "2", "0">>
      [] code = BookNotFound -> <<"4", "0", "4", "0", "1">>
      [] code = AuthorNotFound -> <<"4", "0", "4", "0", "2">>
      [] code = BookAlreadyExists -> <<"4", "0", "9", "0", "1">>
      [] code = AuthorAlreadyExists -> <<"4", "0", "9", "0", "2">>

\* Code.GetHTTPCode on the characters c of a code
GetHTTPCode(c) ==
    IF Len(c) < 3 THEN 500
    ELSE IF Atoi(SubSeq(c, 1, 3)).err THEN 500
    ELSE Atoi(SubSeq(c, 1, 3)).n

\* CodeMessage[code]: a map lookup, "" for a code the map does not hold
CodeMessage(code) ==
    CASE code = Success -> "Success"
      [] code = Updated -> "Updated successfully"
      [] code = Deleted -> "Deleted successfully"
      [] code = Created -> "Created successfully"
      [] code = BadRequest -> "Bad Request"
      [] code = NotFound -> "Not Found"
      [] code = UnprocessableEntity -> "Unprocessable Entity"
      [] code = InternalError -> "Internal Server Error"
      [] code = BindingError -> "JSON parse error"
      [] code = UUIDFormatInvalid -> "Invalid UUID format"
      [] code = BookNotFound -> "Book not found"
      [] code = AuthorNotFound -> "Author not found"
      [] code = ValidationError -> "Validation error"
      [] code = BookAlreadyExists -> "Book already exists"
      [] code = AuthorAlreadyExists -> "Author already exists"
      [] OTHER -> ""

BuildBaseResponse(code, data) ==
    [code |-> code, message |-> CodeMessage(code), data |-> data]

\* ------------------------------------------------------ author repository
AuthorGetByIDNoSoftDelete(tbl, id) == First({i \in 1..Len(tbl) : i = id})

AuthorGetByID(tbl, id) == First({i \in Live(tbl) : i = id})

AuthorGetByPenName(tbl, penName) ==
    First({i \in Live(tbl) : tbl[i].penName = penName})

\* pen_name is declared "unique": a plain unique constraint over all rows of
\* the table, soft-deleted rows included
PenNameNotUnique(tbl, id, penName) == FALSE

PenNameTaken(tbl, id, penName) ==
    \E j \in 1..Len(tbl) : j # id /\ tbl[j].penName = penName

\* INSERT: rejected with a duplicate-key error by the unique constraint
AuthorCreateFails(tbl, author) == PenNameTaken(tbl, Nil, author.penName)

\* an INSERT that leaves birth_year to its column default
AuthorCreateOmitsBirthYear(tbl, author) ==
    Append(tbl, [author EXCEPT !.birthYear = 0])

AuthorCreate(tbl, author) == Append(tbl, author)

\* db.Model(&Author{}).Where("id = ?", id).Updates(author): Updates with a
\* struct writes the non-zero fields only
AuthorUpdates(row, author) ==
    [row EXCEPT !.penName = IF author.penName # "" THEN author.penName ELSE @,
                !.birthYear = IF author.birthYear # 0 THEN author.birthYear ELSE @]

AuthorUpdateFails(tbl, id, author) ==
    /\ id \in Live(tbl)
    /\ author.penName # ""
    /\ PenNameTaken(tbl, id, author.penName)

\* no matching row: zero rows affected, no error
AuthorUpdate(tbl, id, author) ==
    IF id \in Live(tbl) THEN [tbl EXCEPT ![id] = AuthorUpdates(@, author)] ELSE tbl

\* an UPDATE of deleted_at that is not restricted to non-deleted rows and
\* flips the mark
AuthorDeleteFlips(tbl, id) ==
    IF id \in 1..Len(tbl) THEN [tbl EXCEPT ![id].deleted = ~@] ELSE tbl

\* db.Delete on a model with deleted_at: UPDATE ... SET deleted_at
AuthorDelete(tbl, id) ==
    IF id \in Live(tbl) THEN [tbl EXCEPT ![id].deleted = TRUE] ELSE tbl

\* -------------------------------------------------------- book repository
BookGetByID(tbl, id) == First({i \in Live(tbl) : i = id})

BookGetByISBN(tbl, isbn) == First({i \in Live(tbl) : tbl[i].isbn = isbn})

ISBNNotUnique(tbl, id, isbn) == FALSE

ISBNTaken(tbl, id, isbn) ==
    \E j \in 1..Len(tbl) : j # id /\ tbl[j].isbn = isbn

\* the belongs-to relation Author (foreignKey:AuthorID): author_id references
\* a row of authors, soft-deleted or not
AuthorRowMissing(atbl, authorID) == authorID \notin 1..Len(atbl)

BookCreateFails(tbl, atbl, book) ==
    ISBNTaken(tbl, Nil, book.isbn) \/ AuthorRowMissing(atbl, book.authorID)

BookCreate(tbl, book) == Append(tbl, book)

BookUpdates(row, book) ==
    [row EXCEPT !.authorID = IF book.authorID # Nil THEN book.authorID ELSE @,
                !.name = IF book.name # "" THEN book.name ELSE @,
                !.isbn = IF book.isbn # "" THEN book.isbn ELSE @]

BookUpdateFails(tbl, atbl, id, book) ==
    /\ id \in Live(tbl)
    /\ \/ book.isbn # "" /\ ISBNTaken(tbl, id, book.isbn)
       \/ book.authorID # Nil /\ AuthorRowMissing(atbl, book.authorID)

BookUpdate(tbl, id, book) ==
    IF id \in Live(tbl) THEN [tbl EXCEPT ![id] = BookUpdates(@, book)] ELSE tbl

BookDelete(tbl, id) ==
    IF id \in Live(tbl) THEN [tbl EXCEPT ![id].deleted = TRUE] ELSE tbl

\* ------------------------------------------------------------- list reads
\* Find without ORDER BY: the rows come back in an order the database
\* chooses; ord is one such order of the rows that match
Orders(rows) ==
    {ord \in [1..Cardinality(rows) -> rows] :
        \A i, j \in 1..Cardinality(rows) : i # j => ord[i] # ord[j]}

\* OFFSET GetOffset() LIMIT GetLimit()
Window(ord, p) ==
    LET last == IF GetOffset(p) + GetLimit(p) < Len(ord)
                THEN GetOffset(p) + GetLimit(p) ELSE Len(ord)
    IN [k \in 1..(IF last > GetOffset(p) THEN last - GetOffset(p) ELSE 0) |->
           ord[GetOffset(p) + k]]

\* a list query that does not leave out the soft-deleted rows
AuthorGetAllUnscoped(tbl, p, ord) ==
    NewPaginationDataResponse(Window(ord, p), p, Len(tbl))

\* Count, then Offset/Limit/Find, both over the non-deleted rows; ord is an
\* order of Live(tbl)
AuthorGetAll(tbl, p, ord) ==
    NewPaginationDataResponse(Window(ord, p), p, Cardinality(Live(tbl)))

BooksOfAuthor(tbl, authorID) == {i \in Live(tbl) : tbl[i].authorID = authorID}

\* ord is an order of BooksOfAuthor(tbl, authorID)
BookGetByAuthorID(tbl, authorID, p, ord) ==
    NewPaginationDataResponse(Window(ord, p), p,
                              Cardinality(BooksOfAuthor(tbl, authorID)))

BookGetAll(tbl, p, ord) ==
    NewPaginationDataResponse(Window(ord, p), p, Cardinality(Live(tbl)))

\* Preload("Author"): the author row of the book, read as every other query
\* reads, so a soft-deleted author is not attached
PreloadAuthor(atbl, book) == First({i \in Live(atbl) : i = book.authorID})

\* ---------------------------------------------------------- service calls
\* one request being served: the operation, its arguments, the repository
\* call it is about to make, and what it returned (code, entity id or Nil);
\* err is the error of the last repository call ("" = nil)
NoCall ==
    [op |-> "", pc |-> "idle", id |-> Nil, authorID |-> Nil, penName |-> "",
     birthYear |-> 0, name |-> "", isbn |-> "", code |-> "", res |-> Nil,
     err |-> ""]

\* p serves no request
Free(p) == calls[p].pc \in {"idle", "done"}

\* the next request goes to the first goroutine that serves none (which one
\* serves it is immaterial); ncalls counts the requests taken
Accept(p) ==
    /\ Free(p)
    /\ \A q \in Procs : Free(q) => Before(p, q)
    /\ ncalls < MaxCalls
    /\ ncalls' = ncalls + 1

\* a repository call fails with a storage error (connection lost, ...)
Failures == {FALSE, TRUE}

Return(c, code, res, err) ==
    [NoCall EXCEPT !.op = c.op, !.pc = "done", !.code = code, !.res = res,
                   !.err = err]

Goto(c, pc) == [c EXCEPT !.pc = pc]

Init ==
    /\ authors = <<>>
    /\ books = <<>>
    /\ calls = [p \in Procs |-> NoCall]
    /\ ncalls = 0
    /\ query = NoQuery
    /\ pagination = NotParsed
    /\ totalItems = 0
    /\ response = NoResponse
    /\ http = NoRequest
    /\ codeString = <<>>
    /\ httpCode = NoStatus
    /\ tx = NoTx

\* ---------------------------------------------------------- author service
\* CreateAuthor after repo.GetByPenName returned (author, err)
CreateAuthorCheckNoExists(author, err) ==
    IF err THEN InternalError ELSE Continue

CreateAuthorCheck(author, err) ==
    IF err THEN InternalError
    ELSE IF author # Nil THEN AuthorAlreadyExists
    ELSE Continue

CreateAuthor_GetByPenName(p, penName, birthYear, fail) ==
    /\ Accept(p)
    /\ LET c == [NoCall EXCEPT !.op = "CreateAuthor", !.penName = penName,
                               !.birthYear = birthYear]
           author == IF fail THEN Nil ELSE AuthorGetByPenName(authors, penName)
           code == CreateAuthorCheck(author, fail)
       IN calls' = [calls EXCEPT ![p] =
                      IF code = Continue THEN Goto(c, "CA_Create")
                      ELSE Return(c, code, Nil, IF fail THEN "conn" ELSE "")]
    /\ UNCHANGED <<authors, books, pageVars, libVars, http>>

CreateAuthor_Create(p, fail) ==
    /\ calls[p].pc = "CA_Create"
    /\ LET c == calls[p]
           author == Author(c.penName, c.birthYear)
           dup == AuthorCreateFails(authors, author)
       IN /\ fail \/ dup \/ Len(authors) < MaxAuthorRows
          /\ IF fail \/ dup
             THEN /\ authors' = authors
                  /\ calls' = [calls EXCEPT ![p] =
                        Return(c, InternalError, Nil,
                               IF fail THEN "conn" ELSE "duplicate")]
             ELSE /\ authors' = AuthorCreate(authors, author)
                  /\ calls' = [calls EXCEPT ![p] =
                        Return(c, Success, Len(authors) + 1, "")]
    /\ UNCHANGED <<books, ncalls, pageVars, libVars, http>>

\* GetAuthorByID: (author, code); a missing author is (nil, Success)
GetAuthorByID(tbl, id, fail) ==
    IF fail THEN [author |-> Nil, code |-> InternalError]
    ELSE [author |-> AuthorGetByID(tbl, id), code |-> Success]

\* UpdateAuthor after repo.GetByID returned (author, err)
\* a check that answers a missing author with a code that is not declared
UpdateAuthorCheckNotDeclared(author, err) ==
    IF err THEN InternalError
    ELSE IF author = Nil THEN "40403"
    ELSE Continue

UpdateAuthorCheck(author, err) ==
    IF err THEN InternalError
    ELSE IF author = Nil THEN AuthorNotFound
    ELSE Continue

UpdateAuthor_GetByID(p, id, penName, birthYear, fail) ==
    /\ Accept(p)
    /\ LET c == [NoCall EXCEPT !.op = "UpdateAuthor", !.id = id,
                               !.penName = penName, !.birthYear = birthYear]
           author == IF fail THEN Nil ELSE AuthorGetByID(authors, id)
           code == UpdateAuthorCheck(author, fail)
       IN calls' = [calls EXCEPT ![p] =
                      IF code = Continue THEN Goto(c, "UA_Update")
                      ELSE Return(c, code, Nil, IF fail THEN "conn" ELSE "")]
    /\ UNCHANGED <<authors, books, pageVars, libVars, http>>

UpdateAuthor_Update(p, fail) ==
    /\ calls[p].pc = "UA_Update"
    /\ LET c == calls[p]
           author == Author(c.penName, c.birthYear)
           dup == AuthorUpdateFails(authors, c.id, author)
       IN IF fail \/ dup
          THEN /\ authors' = authors
               /\ calls' = [calls EXCEPT ![p] =
                     Return(c, InternalError, Nil,
                            IF fail THEN "conn" ELSE "duplicate")]
          ELSE /\ authors' = AuthorUpdate(authors, c.id, author)
               /\ calls' = [calls EXCEPT ![p] = Return(c, Success, Nil, "")]
    /\ UNCHANGED <<books, ncalls, pageVars, libVars, http>>

\* a delete that also deletes the books of the author
DeleteAuthorCascade(p, id, fail) ==
    /\ Accept(p)
    /\ LET c == [NoCall EXCEPT !.op = "DeleteAuthor", !.id = id]
       IN IF fail
          THEN /\ authors' = authors
               /\ books' = books
               /\ calls' = [calls EXCEPT ![p] = Return(c, InternalError, Nil, "conn")]
          ELSE /\ authors' = AuthorDelete(authors, id)
               /\ books' = [b \in 1..Len(books) |->
                              IF books[b].authorID = id
                              THEN [books[b] EXCEPT !.deleted = TRUE] ELSE books[b]]
               /\ calls' = [calls EXCEPT ![p] = Return(c, Success, Nil, "")]
    /\ UNCHANGED <<pageVars, libVars, http>>

DeleteAuthor(p, id, fail) ==
    /\ Accept(p)
    /\ LET c == [NoCall EXCEPT !.op = "DeleteAuthor", !.id = id]
       IN IF fail
          THEN /\ authors' = authors
               /\ calls' = [calls EXCEPT ![p] = Return(c, InternalError, Nil, "conn")]
          ELSE /\ authors' = AuthorDelete(authors, id)
               /\ calls' = [calls EXCEPT ![p] = Return(c, Success, Nil, "")]
    /\ UNCHANGED <<books, pageVars, libVars, http>>

\* ------------------------------------------------------------ book service
\* CreateBook after authorService.GetAuthorByID returned (author, code)
CreateBookAuthorCheckNoNil(author, code) ==
    IF code # Success THEN code ELSE Continue

CreateBookAuthorCheck(author, code) ==
    IF code # Success THEN code
    ELSE IF author = Nil THEN AuthorNotFound
    ELSE Continue

CreateBook_GetAuthorByID(p, authorID, name, isbn, fail) ==
    /\ Accept(p)
    /\ LET c == [NoCall EXCEPT !.op = "CreateBook", !.authorID = authorID,
                               !.name = name, !.isbn = isbn]
           r == GetAuthorByID(authors, authorID, fail)
           code == CreateBookAuthorCheck(r.author, r.code)
       IN calls' = [calls EXCEPT ![p] =
                      IF code = Continue THEN Goto(c, "CB_GetByISBN")
                      ELSE Return(c, code, Nil, IF fail THEN "conn" ELSE "")]
    /\ UNCHANGED <<authors, books, pageVars, libVars, http>>

\* a GetBookByID that reports a missing book as the author service does
GetBookByIDNilSuccess(tbl, id, fail) ==
    IF fail THEN [book |-> Nil, code |-> InternalError]
    ELSE [book |-> BookGetByID(tbl, id), code |-> Success]

\* GetBookByID: (book, code); a missing book is (nil, BookNotFound)
GetBookByID(tbl, id, fail) ==
    IF fail THEN [book |-> Nil, code |-> InternalError]
    ELSE IF BookGetByID(tbl, id) = Nil THEN [book |-> Nil, code |-> BookNotFound]
    ELSE [book |-> BookGetByID(tbl, id), code |-> Success]

\* CreateBook after repo.GetByISBN returned (book, err)
CreateBookISBNCheckNoExists(book, err) ==
    IF err THEN InternalError ELSE Continue

CreateBookISBNCheck(book, err) ==
    IF err THEN InternalError
    ELSE IF book # Nil THEN BookAlreadyExists
    ELSE Continue

CreateBook_GetByISBN(p, fail) ==
    /\ calls[p].pc = "CB_GetByISBN"
    /\ LET c == calls[p]
           book == IF fail THEN Nil ELSE BookGetByISBN(books, c.isbn)
           code == CreateBookISBNCheck(book, fail)
       IN calls' = [calls EXCEPT ![p] =
                      IF code = Continue THEN Goto(c, "CB_Create")
                      ELSE Return(c, code, Nil, IF fail THEN "conn" ELSE "")]
    /\ UNCHANGED <<authors, books, ncalls, pageVars, libVars, http>>

CreateBook_Create(p, fail) ==
    /\ calls[p].pc = "CB_Create"
    /\ LET c == calls[p]
           book == Book(c.authorID, c.name, c.isbn)
           dup == BookCreateFails(books, authors, book)
       IN /\ fail \/ dup \/ Len(books) < MaxBookRows
          /\ IF fail \/ dup
             THEN /\ books' = books
                  /\ calls' = [calls EXCEPT ![p] =
                        Return(c, InternalError, Nil,
                               IF fail THEN "conn" ELSE "duplicate")]
             ELSE /\ books' = BookCreate(books, book)
                  /\ calls' = [calls EXCEPT ![p] =
                        Return(c, Success, Len(books) + 1, "")]
    /\ UNCHANGED <<authors, ncalls, pageVars, libVars, http>>

\* UpdateBook after repo.GetByID returned (book, err)
\* a check that does not look at the error of the lookup
UpdateBookCheckIgnoresError(book, err) ==
    IF book = Nil THEN BookNotFound ELSE Continue

UpdateBookCheck(book, err) ==
    IF err THEN InternalError
    ELSE IF book = Nil THEN BookNotFound
    ELSE Continue

\* an UpdateBook that looks up the author before the book
UpdateBook_GetByIDAuthorFirst(p, id, authorID, name, isbn, fail) ==
    /\ Accept(p)
    /\ LET c == [NoCall EXCEPT !.op = "UpdateBook", !.id = id,
                               !.authorID = authorID, !.name = name,
                               !.isbn = isbn]
           r == GetAuthorByID(authors, authorID, fail)
           code == IF r.code # Success THEN r.code
                   ELSE IF r.author = Nil THEN AuthorNotFound
                   ELSE Continue
       IN calls' = [calls EXCEPT ![p] =
                      IF code = Continue THEN Goto(c, "UB_GetAuthorByID")
                      ELSE Return(c, code, Nil, IF fail THEN "conn" ELSE "")]
    /\ UNCHANGED <<authors, books, pageVars, libVars, http>>

UpdateBook_GetByID(p, id, authorID, name, isbn, fail) ==
    /\ Accept(p)
    /\ LET c == [NoCall EXCEPT !.op = "UpdateBook", !.id = id,
                               !.authorID = authorID, !.name = name,
                               !.isbn = isbn]
           book == IF fail THEN Nil ELSE BookGetByID(books, id)
           code == UpdateBookCheck(book, fail)
       IN calls' = [calls EXCEPT ![p] =
                      IF code = Continue THEN Goto(c, "UB_GetAuthorByID")
                      ELSE Return(c, code, Nil, IF fail THEN "conn" ELSE "")]
    /\ UNCHANGED <<authors, books, pageVars, libVars, http>>

\* UpdateBook after authorService.GetAuthorByID returned (author, code)
UpdateBookAuthorCheckNoNil(author, code) ==
    IF code # Success THEN code ELSE Continue

UpdateBookAuthorCheck(author, code) ==
    IF code # Success THEN code
    ELSE IF author = Nil THEN AuthorNotFound
    ELSE Continue

UpdateBook_GetAuthorByID(p, fail) ==
    /\ calls[p].pc = "UB_GetAuthorByID"
    /\ LET c == calls[p]
           r == GetAuthorByID(authors, c.authorID, fail)
           code == UpdateBookAuthorCheck(r.author, r.code)
       IN calls' = [calls EXCEPT ![p] =
                      IF code = Continue THEN Goto(c, "UB_Update")
                      ELSE Return(c, code, Nil, IF fail THEN "conn" ELSE "")]
    /\ UNCHANGED <<authors, books, ncalls, pageVars, libVars, http>>

UpdateBook_Update(p, fail) ==
    /\ calls[p].pc = "UB_Update"
    /\ LET c == calls[p]
           book == Book(c.authorID, c.name, c.isbn)
           dup == BookUpdateFails(books, authors, c.id, book)
       IN IF fail \/ dup
          THEN /\ books' = books
               /\ calls' = [calls EXCEPT ![p] =
                     Return(c, InternalError, Nil,
                            IF fail THEN "conn" ELSE "duplicate")]
          ELSE /\ books' = BookUpdate(books, c.id, book)
               /\ calls' = [calls EXCEPT ![p] = Return(c, Success, Nil, "")]
    /\ UNCHANGED <<authors, ncalls, pageVars, libVars, http>>

DeleteBook(p, id, fail) ==
    /\ Accept(p)
    /\ LET c == [NoCall EXCEPT !.op = "DeleteBook", !.id = id]
       IN IF fail
          THEN /\ books' = books
               /\ calls' = [calls EXCEPT ![p] = Return(c, InternalError, Nil, "conn")]
          ELSE /\ books' = BookDelete(books, id)
               /\ calls' = [calls EXCEPT ![p] = Return(c, Success, Nil, "")]
    /\ UNCHANGED <<authors, pageVars, libVars, http>>

\* ------------------------------------------------ service calls run whole
\* a service call made while no other request is served: its repository
\* calls follow one another with nothing in between.  failAt is the
\* repository call that fails with a storage error (0: none does).
RunCreateAuthor(atbl, penName, birthYear, failAt) ==
    LET found == IF failAt = 1 THEN Nil ELSE AuthorGetByPenName(atbl, penName)
        code == CreateAuthorCheck(found, failAt = 1)
        author == Author(penName, birthYear)
    IN IF code # Continue THEN [authors |-> atbl, code |-> code, res |-> Nil]
       ELSE IF failAt = 2 \/ AuthorCreateFails(atbl, author)
            THEN [authors |-> atbl, code |-> InternalError, res |-> Nil]
       ELSE [authors |-> AuthorCreate(atbl, author), code |-> Success,
             res |-> Len(atbl) + 1]

RunUpdateAuthor(atbl, id, penName, birthYear, failAt) ==
    LET found == IF failAt = 1 THEN Nil ELSE AuthorGetByID(atbl, id)
        code == UpdateAuthorCheck(found, failAt = 1)
        author == Author(penName, birthYear)
    IN IF code # Continue THEN [authors |-> atbl, code |-> code]
       ELSE IF failAt = 2 \/ AuthorUpdateFails(atbl, id, author)
            THEN [authors |-> atbl, code |-> InternalError]
       ELSE [authors |-> AuthorUpdate(atbl, id, author), code |-> Success]

RunDeleteAuthor(atbl, id, failAt) ==
    IF failAt = 1 THEN [authors |-> atbl, code |-> InternalError]
    ELSE [authors |-> AuthorDelete(atbl, id), code |-> Success]

\* GetAllAuthors: (page, code); ord is the order the rows come back in
GetAllAuthors(atbl, p, ord, fail) ==
    IF fail THEN [page |-> Nil, code |-> InternalError]
    ELSE [page |-> AuthorGetAll(atbl, p, ord), code |-> Success]

RunCreateBook(btbl, atbl, authorID, name, isbn, failAt) ==
    LET r == GetAuthorByID(atbl, authorID, failAt = 1)
        code1 == CreateBookAuthorCheck(r.author, r.code)
        found == IF failAt = 2 THEN Nil ELSE BookGetByISBN(btbl, isbn)
        code2 == CreateBookISBNCheck(found, failAt = 2)
        book == Book(authorID, name, isbn)
    IN IF code1 # Continue THEN [books |-> btbl, code |-> code1, res |-> Nil]
       ELSE IF code2 # Continue THEN [books |-> btbl, code |-> code2, res |-> Nil]
       ELSE IF failAt = 3 \/ BookCreateFails(btbl, atbl, book)
            THEN [books |-> btbl, code |-> InternalError, res |-> Nil]
       ELSE [books |-> BookCreate(btbl, book), code |-> Success,
             res |-> Len(btbl) + 1]

RunUpdateBook(btbl, atbl, id, authorID, name, isbn, failAt) ==
    LET found == IF failAt = 1 THEN Nil ELSE BookGetByID(btbl, id)
        code1 == UpdateBookCheck(found, failAt = 1)
        r == GetAuthorByID(atbl, authorID, failAt = 2)
        code2 == UpdateBookAuthorCheck(r.author, r.code)
        book == Book(authorID, name, isbn)
    IN IF code1 # Continue THEN [books |-> btbl, code |-> code1]
       ELSE IF code2 # Continue THEN [books |-> btbl, code |-> code2]
       ELSE IF failAt = 3 \/ BookUpdateFails(btbl, atbl, id, book)
            THEN [books |-> btbl, code |-> InternalError]
       ELSE [books |-> BookUpdate(btbl, id, book), code |-> Success]

RunDeleteBook(btbl, id, failAt) ==
    IF failAt = 1 THEN [books |-> btbl, code |-> InternalError]
    ELSE [books |-> BookDelete(btbl, id), code |-> Success]

\* a GetAllBooks that reports an empty list as a missing book
GetAllBooksNotFoundWhenEmpty(btbl, p, ord, fail) ==
    IF fail THEN [page |-> Nil, code |-> InternalError]
    ELSE IF Live(btbl) = {} THEN [page |-> Nil, code |-> BookNotFound]
    ELSE [page |-> BookGetAll(btbl, p, ord), code |-> Success]

GetAllBooks(btbl, p, ord, fail) ==
    IF fail THEN [page |-> Nil, code |-> InternalError]
    ELSE [page |-> BookGetAll(btbl, p, ord), code |-> Success]

GetBooksByAuthorID(btbl, authorID, p, ord, fail) ==
    IF fail THEN [page |-> Nil, code |-> InternalError]
    ELSE [page |-> BookGetByAuthorID(btbl, authorID, p, ord), code |-> Success]

\* the values a request carries: when its first repository call fails the
\* call returns InternalError whatever it carries, and one request stands
\* for all
Sent(values, fail) == IF fail THEN {CHOOSE v \in values : TRUE} ELSE values

Next ==
    \E p \in Procs, fail \in Failures :
        \/ \E penName \in Sent(PenNames, fail), birthYear \in Sent(BirthYears, fail) :
              CreateAuthor_GetByPenName(p, penName, birthYear, fail)
        \/ CreateAuthor_Create(p, fail)
        \/ \E id \in Sent(AuthorIDs, fail), penName \in Sent(PenNames, fail),
              birthYear \in Sent(BirthYears, fail) :
              UpdateAuthor_GetByID(p, id, penName, birthYear, fail)
        \/ UpdateAuthor_Update(p, fail)
        \/ \E id \in Sent(AuthorIDs, fail) : DeleteAuthor(p, id, fail)
        \/ \E authorID \in Sent(AuthorIDs, fail), name \in Sent(BookNames, fail),
              isbn \in Sent(ISBNs, fail) :
              CreateBook_GetAuthorByID(p, authorID, name, isbn, fail)
        \/ CreateBook_GetByISBN(p, fail)
        \/ CreateBook_Create(p, fail)
        \/ \E id \in Sent(BookIDs, fail), authorID \in Sent(AuthorIDs, fail),
              name \in Sent(BookNames, fail), isbn \in Sent(ISBNs, fail) :
              UpdateBook_GetByID(p, id, authorID, name, isbn, fail)
        \/ UpdateBook_GetAuthorByID(p, fail)
        \/ UpdateBook_Update(p, fail)
        \/ \E id \in Sent(BookIDs, fail) : DeleteBook(p, id, fail)

Spec == Init /\ [][Next]_vars

\* ----------------------------------------------------------- HTTP requests
\* a path parameter: the text of a UUID, or text that is no UUID
PathParams(ids) ==
    {[wellFormed |-> TRUE, id |-> i] : i \in ids} \cup {[wellFormed |-> FALSE, id |-> Nil]}

\* uuid.Parse(c.Param("id"))
UUIDParse(param) == [id |-> param.id, err |-> ~param.wellFormed]

\* text of 256 characters; every other sample text but "" is shorter
LongText == "L256"

Length(text) == IF text = "" THEN 0 ELSE IF text = LongText THEN 256 ELSE 1

\* the bodies sent to the author endpoints: JSON that does not parse, JSON
\* of the wrong types ("birthYear": false), or an object with the fields
\* given; a field that is missing decodes to its zero value
AuthorBody(json, penName, birthYear) ==
    [json |-> json, penName |-> penName, birthYear |-> birthYear]

AuthorBodies ==
    {AuthorBody("malformed", "", 0), AuthorBody("mistyped", "", 0)}
       \cup {AuthorBody("object", penName, birthYear) :
               penName \in PenNames \cup {"", LongText},
               birthYear \in BirthYears \cup {1000}}

\* c.ShouldBindJSON(&req): decode the JSON, then check the "binding" tags
\* (binding:"required" on both fields: the zero value is refused)
ShouldBindAuthorFails(body) ==
    \/ body.json # "object"
    \/ body.penName = ""
    \/ body.birthYear = 0

\* validator.Validate(req) on the "validate" tags, one message per field that
\* fails, in field order; no message: nil
ValidateAuthor(body) ==
    (IF body.penName = "" THEN <<"PenName is a required field">>
     ELSE IF Length(body.penName) < 1
          THEN <<"PenName must be at least 1 character in length">>
     ELSE IF Length(body.penName) > 255
          THEN <<"PenName must be a maximum of 255 characters in length">>
     ELSE <<>>)
    \o (IF body.birthYear = 0 THEN <<"BirthYear is a required field">>
        ELSE IF body.birthYear < 1800 THEN <<"BirthYear must be 1,800 or greater">>
        ELSE IF body.birthYear > 2600 THEN <<"BirthYear must be 2,600 or less">>
        ELSE <<>>)

\* text that is no ISBN ("978-0-7475-3269"); the sample ISBNs are valid
InvalidISBN == "978-0-7475-3269"

\* the bodies sent to the book endpoints; "mistyped" includes an authorId
\* that is no UUID, and a missing authorId decodes to the zero UUID (Nil)
BookBody(json, authorID, name, isbn) ==
    [json |-> json, authorID |-> authorID, name |-> name, isbn |-> isbn]

BookBodies ==
    {BookBody("malformed", Nil, "", ""), BookBody("mistyped", Nil, "", "")}
       \cup {BookBody("object", authorID, name, isbn) :
               authorID \in AuthorIDs \cup {Nil},
               name \in BookNames \cup {LongText},
               isbn \in ISBNs \cup {"", InvalidISBN}}

\* binding:"required" on authorId, name and isbn
ShouldBindBookFails(body) ==
    \/ body.json # "object"
    \/ body.authorID = Nil
    \/ body.name = ""
    \/ body.isbn = ""

\* validate:"required" / "required,min=1,max=255" / "required,isbn"
ValidateBook(body) ==
    (IF body.authorID = Nil THEN <<"AuthorID is a required field">> ELSE <<>>)
    \o (IF body.name = "" THEN <<"Name is a required field">>
        ELSE IF Length(body.name) < 1
             THEN <<"Name must be at least 1 character in length">>
        ELSE IF Length(body.name) > 255
             THEN <<"Name must be a maximum of 255 characters in length">>
        ELSE <<>>)
    \o (IF body.isbn = "" THEN <<"ISBN is a required field">>
        ELSE IF body.isbn \notin ISBNs THEN <<"ISBN must be a valid ISBN number">>
        ELSE <<>>)

\* the query strings sent to the list endpoints
Queries ==
    [page : {<<>>, <<"2">>, <<"0">>},
     pageSize : {<<>>, <<"1">>, <<"1", "0", "1">>, <<"a">>}]

\* ----------------------------------------------------------- HTTP handlers
\* a handler takes the next request; ncalls counts the requests taken
Request ==
    /\ ncalls < MaxRequests
    /\ ncalls' = ncalls + 1

\* c.JSON(status, response); called: the handler called its service, with
\* the pagination request p if it is a list handler
JSON(handler, status, r, called, p) ==
    http' = [handler |-> handler, status |-> status, code |-> r.code,
             message |-> r.message, data |-> r.data, called |-> called,
             pagination |-> p]

\* the service returned a code that is not Success
ServiceError(handler, code, p) ==
    JSON(handler, GetHTTPCode(Spell(code)), BuildBaseResponse(code, NoData), TRUE, p)

HandleCreateAuthor(body, failAt) ==
    /\ Request
    /\ IF ShouldBindAuthorFails(body)
       THEN /\ JSON("CreateAuthor", 400,
                    BuildBaseResponse(BindingError, Data("string", Nil, <<"err.Error()">>)),
                    FALSE, NoPagination)
            /\ authors' = authors
       ELSE IF ValidateAuthor(body) # <<>>
       THEN /\ JSON("CreateAuthor", 400,
                    BuildBaseResponse(ValidationError,
                                      Data("list", Nil, ValidateAuthor(body))),
                    FALSE, NoPagination)
            /\ authors' = authors
       ELSE LET r == RunCreateAuthor(authors, body.penName, body.birthYear, failAt)
            IN /\ Len(r.authors) <= MaxAuthorRows
               /\ authors' = r.authors
               /\ IF r.code # Success
                  THEN ServiceError("CreateAuthor", r.code, NoPagination)
                  ELSE JSON("CreateAuthor", 201,
                            BuildBaseResponse(Created, Data("author", r.res, <<>>)),
                            TRUE, NoPagination)
    /\ UNCHANGED <<books, calls, pageVars, libVars>>

\* a nil *Author in the data is a typed nil: the JSON holds "data": null
HandleGetAuthor(param, fail) ==
    /\ Request
    /\ IF UUIDParse(param).err
       THEN JSON("GetAuthor", 400, BuildBaseResponse(UUIDFormatInvalid, NoData),
                 FALSE, NoPagination)
       ELSE LET r == GetAuthorByID(authors, UUIDParse(param).id, fail)
            IN IF r.code # Success
               THEN ServiceError("GetAuthor", r.code, NoPagination)
               ELSE JSON("GetAuthor", 200,
                         BuildBaseResponse(Success,
                            IF r.author = Nil THEN Data("null", Nil, <<>>)
                            ELSE Data("author", r.author, <<>>)),
                         TRUE, NoPagination)
    /\ UNCHANGED <<authors, books, calls, pageVars, libVars>>

HandleGetAllAuthors(q, ord, fail) ==
    /\ Request
    /\ LET r == NewPaginationRequest(q.page, q.pageSize)
       IN IF Len(r.errors) > 0
          THEN JSON("GetAllAuthors", 400,
                    BuildBaseResponse(ValidationError,
                                      Data("list", Nil, r.errors)),
                    FALSE, NoPagination)
          ELSE LET a == GetAllAuthors(authors, r.pagination, ord, fail)
               IN IF a.code # Success
                  THEN ServiceError("GetAllAuthors", a.code, r.pagination)
                  ELSE JSON("GetAllAuthors", 200,
                            BuildBaseResponse(Success, PageData(a.page)),
                            TRUE, r.pagination)
    /\ UNCHANGED <<authors, books, calls, pageVars, libVars>>

HandleUpdateAuthor(param, body, failAt) ==
    /\ Request
    /\ IF UUIDParse(param).err
       THEN /\ JSON("UpdateAuthor", 400, BuildBaseResponse(UUIDFormatInvalid, NoData),
                    FALSE, NoPagination)
            /\ authors' = authors
       ELSE IF ShouldBindAuthorFails(body)
       THEN /\ JSON("UpdateAuthor", 400,
                    BuildBaseResponse(BindingError, Data("string", Nil, <<"err.Error()">>)),
                    FALSE, NoPagination)
            /\ authors' = authors
       ELSE IF ValidateAuthor(body) # <<>>
       THEN /\ JSON("UpdateAuthor", 400,
                    BuildBaseResponse(ValidationError,
                                      Data("list", Nil, ValidateAuthor(body))),
                    FALSE, NoPagination)
            /\ authors' = authors
       ELSE LET r == RunUpdateAuthor(authors, UUIDParse(param).id, body.penName,
                                     body.birthYear, failAt)
            IN /\ authors' = r.authors
               /\ IF r.code # Success
                  THEN ServiceError("UpdateAuthor", r.code, NoPagination)
                  ELSE JSON("UpdateAuthor", 200, BuildBaseResponse(Updated, NoData),
                            TRUE, NoPagination)
    /\ UNCHANGED <<books, calls, pageVars, libVars>>

HandleDeleteAuthor(param, fail) ==
    /\ Request
    /\ IF UUIDParse(param).err
       THEN /\ JSON("DeleteAuthor", 400, BuildBaseResponse(UUIDFormatInvalid, NoData),
                    FALSE, NoPagination)
            /\ authors' = authors
       ELSE LET r == RunDeleteAuthor(authors, UUIDParse(param).id, IF fail THEN 1 ELSE 0)
            IN /\ authors' = r.authors
               /\ IF r.code # Success
                  THEN ServiceError("DeleteAuthor", r.code, NoPagination)
                  ELSE JSON("DeleteAuthor", 200, BuildBaseResponse(Deleted, NoData),
                            TRUE, NoPagination)
    /\ UNCHANGED <<books, calls, pageVars, libVars>>

HandleCreateBook(body, failAt) ==
    /\ Request
    /\ IF ShouldBindBookFails(body)
       THEN /\ JSON("CreateBook", 400,
                    BuildBaseResponse(BindingError, Data("string", Nil, <<"err.Error()">>)),
                    FALSE, NoPagination)
            /\ books' = books
       ELSE IF ValidateBook(body) # <<>>
       THEN /\ JSON("CreateBook", 400,
                    BuildBaseResponse(ValidationError,
                                      Data("list", Nil, ValidateBook(body))),
                    FALSE, NoPagination)
            /\ books' = books
       ELSE LET r == RunCreateBook(books, authors, body.authorID, body.name,
                                   body.isbn, failAt)
            IN /\ Len(r.books) <= MaxBookRows
               /\ books' = r.books
               /\ IF r.code # Success
                  THEN ServiceError("CreateBook", r.code, NoPagination)
                  ELSE JSON("CreateBook", 201,
                            BuildBaseResponse(Created, Data("book", r.res, <<>>)),
                            TRUE, NoPagination)
    /\ UNCHANGED <<authors, calls, pageVars, libVars>>

HandleGetBook(param, fail) ==
    /\ Request
    /\ IF UUIDParse(param).err
       THEN JSON("GetBook", 400, BuildBaseResponse(UUIDFormatInvalid, NoData),
                 FALSE, NoPagination)
       ELSE LET r == GetBookByID(books, UUIDParse(param).id, fail)
            IN IF r.code # Success
               THEN ServiceError("GetBook", r.code, NoPagination)
               ELSE JSON("GetBook", 200,
                         BuildBaseResponse(Success, Data("book", r.book, <<>>)),
                         TRUE, NoPagination)
    /\ UNCHANGED <<authors, books, calls, pageVars, libVars>>

HandleGetBooksByAuthorID(param, q, ord, fail) ==
    /\ Request
    /\ IF UUIDParse(param).err
       THEN JSON("GetBooksByAuthorID", 400,
                 BuildBaseResponse(UUIDFormatInvalid, NoData), FALSE, NoPagination)
       ELSE LET r == NewPaginationRequest(q.page, q.pageSize)
            IN IF Len(r.errors) > 0
               THEN JSON("GetBooksByAuthorID", 400,
                         BuildBaseResponse(ValidationError, Data("list", Nil, r.errors)),
                         FALSE, NoPagination)
               ELSE LET b == GetBooksByAuthorID(books, UUIDParse(param).id,
                                                r.pagination, ord, fail)
                    IN IF b.code # Success
                       THEN ServiceError("GetBooksByAuthorID", b.code, r.pagination)
                       ELSE JSON("GetBooksByAuthorID", 200,
                                 BuildBaseResponse(Success, PageData(b.page)),
                                 TRUE, r.pagination)
    /\ UNCHANGED <<authors, books, calls, pageVars, libVars>>

HandleGetAllBooks(q, ord, fail) ==
    /\ Request
    /\ LET r == NewPaginationRequest(q.page, q.pageSize)
       IN IF Len(r.errors) > 0
          THEN JSON("GetAllBooks", 400,
                    BuildBaseResponse(ValidationError, Data("list", Nil, r.errors)),
                    FALSE, NoPagination)
          ELSE LET b == GetAllBooks(books, r.pagination, ord, fail)
               IN IF b.code # Success
                  THEN ServiceError("GetAllBooks", b.code, r.pagination)
                  ELSE JSON("GetAllBooks", 200,
                            BuildBaseResponse(Success, PageData(b.page)),
                            TRUE, r.pagination)
    /\ UNCHANGED <<authors, books, calls, pageVars, libVars>>

\* a handler that binds the body before it parses the path id
HandleUpdateBookBindFirst(param, body, failAt) ==
    /\ Request
    /\ IF ShouldBindBookFails(body)
       THEN /\ JSON("UpdateBook", 400,
                    BuildBaseResponse(BindingError, Data("string", Nil, <<"err.Error()">>)),
                    FALSE, NoPagination)
            /\ books' = books
       ELSE IF UUIDParse(param).err
       THEN /\ JSON("UpdateBook", 400, BuildBaseResponse(UUIDFormatInvalid, NoData),
                    FALSE, NoPagination)
            /\ books' = books
       ELSE IF ValidateBook(body) # <<>>
       THEN /\ JSON("UpdateBook", 400,
                    BuildBaseResponse(ValidationError,
                                      Data("list", Nil, ValidateBook(body))),
                    FALSE, NoPagination)
            /\ books' = books
       ELSE LET r == RunUpdateBook(books, authors, UUIDParse(param).id,
                                   body.authorID, body.name, body.isbn, failAt)
            IN /\ books' = r.books
               /\ IF r.code # Success
                  THEN ServiceError("UpdateBook", r.code, NoPagination)
                  ELSE JSON("UpdateBook", 200, BuildBaseResponse(Updated, NoData),
                            TRUE, NoPagination)
    /\ UNCHANGED <<authors, calls, pageVars, libVars>>

HandleUpdateBook(param, body, failAt) ==
    /\ Request
    /\ IF UUIDParse(param).err
       THEN /\ JSON("UpdateBook", 400, BuildBaseResponse(UUIDFormatInvalid, NoData),
                    FALSE, NoPagination)
            /\ books' = books
       ELSE IF ShouldBindBookFails(body)
       THEN /\ JSON("UpdateBook", 400,
                    BuildBaseResponse(BindingError, Data("string", Nil, <<"err.Error()">>)),
                    FALSE, NoPagination)
            /\ books' = books
       ELSE IF ValidateBook(body) # <<>>
       THEN /\ JSON("UpdateBook", 400,
                    BuildBaseResponse(ValidationError,
                                      Data("list", Nil, ValidateBook(body))),
                    FALSE, NoPagination)
            /\ books' = books
       ELSE LET r == RunUpdateBook(books, authors, UUIDParse(param).id,
                                   body.authorID, body.name, body.isbn, failAt)
            IN /\ books' = r.books
               /\ IF r.code # Success
                  THEN ServiceError("UpdateBook", r.code, NoPagination)
                  ELSE JSON("UpdateBook", 200, BuildBaseResponse(Updated, NoData),
                            TRUE, NoPagination)
    /\ UNCHANGED <<authors, calls, pageVars, libVars>>

HandleDeleteBook(param, fail) ==
    /\ Request
    /\ IF UUIDParse(param).err
       THEN /\ JSON("DeleteBook", 400, BuildBaseResponse(UUIDFormatInvalid, NoData),
                    FALSE, NoPagination)
            /\ books' = books
       ELSE LET r == RunDeleteBook(books, UUIDParse(param).id, IF fail THEN 1 ELSE 0)
            IN /\ books' = r.books
               /\ IF r.code # Success
                  THEN ServiceError("DeleteBook", r.code, NoPagination)
                  ELSE JSON("DeleteBook", 200, BuildBaseResponse(Deleted, NoData),
                            TRUE, NoPagination)
    /\ UNCHANGED <<authors, calls, pageVars, libVars>>

\* which repository call of a service call fails (0: none)
FailAt(n) == 0..n

\* the HTTP API with one client: every request is handled whole
NextHTTP ==
    \/ \E body \in AuthorBodies, failAt \in FailAt(2) : HandleCreateAuthor(body, failAt)
    \/ \E param \in PathParams(AuthorIDs), fail \in Failures : HandleGetAuthor(param, fail)
    \/ \E q \in Queries, ord \in Orders(Live(authors)), fail \in Failures :
          HandleGetAllAuthors(q, ord, fail)
    \/ \E param \in PathParams(AuthorIDs), body \in AuthorBodies, failAt \in FailAt(2) :
          HandleUpdateAuthor(param, body, failAt)
    \/ \E param \in PathParams(AuthorIDs), fail \in Failures :
          HandleDeleteAuthor(param, fail)
    \/ \E body \in BookBodies, failAt \in FailAt(3) : HandleCreateBook(body, failAt)
    \/ \E param \in PathParams(BookIDs), fail \in Failures : HandleGetBook(param, fail)
    \/ \E param \in PathParams(AuthorIDs), q \in Queries, fail \in Failures :
          \E ord \in Orders(BooksOfAuthor(books, param.id)) :
             HandleGetBooksByAuthorID(param, q, ord, fail)
    \/ \E q \in Queries, ord \in Orders(Live(books)), fail \in Failures :
          HandleGetAllBooks(q, ord, fail)
    \/ \E param \in PathParams(BookIDs), body \in BookBodies, failAt \in FailAt(3) :
          HandleUpdateBook(param, body, failAt)
    \/ \E param \in PathParams(BookIDs), fail \in Failures :
          HandleDeleteBook(param, fail)

SpecHTTP == Init /\ [][NextHTTP]_vars

\* ------------------------------------------------- pagination, on its own
\* the query strings of a request: every text of up to MaxStrLen characters,
\* a number with a plus sign, and two numbers beyond the range of int
QueryChars == {"0", "1", "-", "a"}

RECURSIVE Texts(_)
Texts(n) ==
    IF n = 0 THEN {<<>>}
    ELSE Texts(n - 1) \cup {Append(t, ch) : t \in Texts(n - 1), ch \in QueryChars}

QueryStrings ==
    Texts(MaxStrLen) \cup {<<"+", "1">>, MinInt64, Append(MaxInt64, "0")}

InitPagination ==
    /\ authors = <<>>
    /\ books = <<>>
    /\ calls = [p \in Procs |-> NoCall]
    /\ ncalls = 0
    /\ query \in [page : QueryStrings, pageSize : QueryStrings]
    /\ pagination = NotParsed
    /\ totalItems = 0
    /\ response = NoResponse
    /\ http = NoRequest
    /\ codeString = <<>>
    /\ httpCode = NoStatus
    /\ tx = NoTx

\* pkgDto.NewPaginationRequest(c.Query("page"), c.Query("pageSize"))
ParseQuery ==
    /\ pagination = NotParsed
    /\ pagination' = NewPaginationRequest(query.page, query.pageSize)
    /\ UNCHANGED <<authors, books, calls, ncalls, query, totalItems, response, libVars, http>>

NextPagination == ParseQuery

SpecPagination == InitPagination /\ [][NextPagination]_vars

\* the pagination requests of a list call and the totals a count can return
PageRequests == [Page : 1..MaxPage, PageSize : 1..MaxPageSize]

InitPaginationResponse ==
    /\ authors = <<>>
    /\ books = <<>>
    /\ calls = [p \in Procs |-> NoCall]
    /\ ncalls = 0
    /\ query = NoQuery
    /\ pagination \in {[pagination |-> req, errors |-> <<>>] : req \in PageRequests}
    /\ totalItems \in 0..MaxTotalItems
    /\ response = NoResponse
    /\ http = NoRequest
    /\ codeString = <<>>
    /\ httpCode = NoStatus
    /\ tx = NoTx

\* NewPaginationResponse(req, totalItems)
BuildResponse ==
    /\ response = NoResponse
    /\ response' = NewPaginationResponse(pagination.pagination, totalItems)
    /\ UNCHANGED <<authors, books, calls, ncalls, query, pagination, totalItems, libVars, http>>

NextPaginationResponse == BuildResponse

SpecPaginationResponse == InitPaginationResponse /\ [][NextPaginationResponse]_vars

\* ------------------------------------------------------ codes, on their own
\* the declared codes, and the code strings GetHTTPCode is called on: the
\* declared codes and every text of up to MaxCodeLen characters
Codes ==
    {Success, Updated, Deleted, Created, BadRequest, NotFound, Conflict,
     UnprocessableEntity, InternalError, BindingError, UUIDFormatInvalid,
     ValidationError, BookNotFound, AuthorNotFound, BookAlreadyExists,
     AuthorAlreadyExists}

CodeChars == {"0", "4", "+", "-", "a"}

RECURSIVE TextsOver(_, _)
TextsOver(chars, n) ==
    IF n = 0 THEN {<<>>}
    ELSE TextsOver(chars, n - 1)
            \cup {Append(t, ch) : t \in TextsOver(chars, n - 1), ch \in chars}

CodeStrings == TextsOver(CodeChars, MaxCodeLen) \cup {Spell(code) : code \in Codes}

InitCode ==
    /\ authors = <<>>
    /\ books = <<>>
    /\ calls = [p \in Procs |-> NoCall]
    /\ ncalls = 0
    /\ query = NoQuery
    /\ pagination = NotParsed
    /\ totalItems = 0
    /\ response = NoResponse
    /\ http = NoRequest
    /\ codeString \in CodeStrings
    /\ httpCode = NoStatus
    /\ tx = NoTx

\* Code(codeString).GetHTTPCode()
CallGetHTTPCode ==
    /\ ~httpCode.called
    /\ httpCode' = [called |-> TRUE, status |-> GetHTTPCode(codeString)]
    /\ UNCHANGED <<authors, books, calls, ncalls, pageVars, codeString, tx, http>>

\* BuildBaseResponse(code, data) for the declared code that codeString spells
CallBuildBaseResponse(code, data) ==
    /\ http = NoRequest
    /\ Spell(code) = codeString
    /\ JSON("BuildBaseResponse", 0, BuildBaseResponse(code, data), FALSE, NoPagination)
    /\ UNCHANGED <<authors, books, calls, ncalls, pageVars, libVars>>

NextCode ==
    \/ CallGetHTTPCode
    \/ \E code \in Codes, data \in {NoData, Data("string", Nil, <<"data">>)} :
          CallBuildBaseResponse(code, data)

SpecCode == InitCode /\ [][NextCode]_vars

\* ------------------------------------------- the transaction manager, on its own
\* errors are their texts; nil is ""
BeginErrors == {"", "begin failed"}
FnErrors == {"", "transaction failed"}
CommitErrors == {"", "commit failed"}
RollbackErrors == {"", "rollback failed"}

InitTransaction ==
    /\ authors = <<>>
    /\ books = <<>>
    /\ calls = [p \in Procs |-> NoCall]
    /\ ncalls = 0
    /\ query = NoQuery
    /\ pagination = NotParsed
    /\ totalItems = 0
    /\ response = NoResponse
    /\ http = NoRequest
    /\ codeString = <<>>
    /\ httpCode = NoStatus
    /\ tx = NoTx

\* a call of Transaction(fn): tx := tm.db.Begin(); a begin error is returned
\* at once.  stored is what the database holds, whatever the call
TransactionBegin(err) ==
    /\ tx.pc \in {"idle", "done"}
    /\ tx.n < MaxTransactions
    /\ tx' = [NoTx EXCEPT !.n = tx.n + 1, !.stored = tx.stored, !.begun = 1,
                          !.beginErr = err,
                          !.pc = IF err # "" THEN "done" ELSE "fn",
                          !.ret = err]
    /\ UNCHANGED <<authors, books, calls, ncalls, pageVars, codeString, httpCode, http>>

\* err := fn(tx): the callback writes through tx and returns nil or an error
TransactionFn(writes, err) ==
    /\ tx.pc = "fn"
    /\ tx' = [tx EXCEPT !.runs = @ + 1, !.pending = writes, !.fnErr = err,
                        !.pc = "end"]
    /\ UNCHANGED <<authors, books, calls, ncalls, pageVars, codeString, httpCode, http>>

\* if err != nil { tx.Rollback(); return err }: the result of the rollback
\* is not looked at
TransactionRollback(rollbackErr) ==
    /\ tx.pc = "end"
    /\ tx.fnErr # ""
    /\ tx' = [tx EXCEPT !.rollbacks = @ + 1, !.pending = 0, !.ret = tx.fnErr,
                        !.pc = "done"]
    /\ UNCHANGED <<authors, books, calls, ncalls, pageVars, codeString, httpCode, http>>

\* a Transaction that commits whatever the callback returned
TransactionCommitAlways(err) ==
    /\ tx.pc = "end"
    /\ tx' = [tx EXCEPT !.commits = @ + 1,
                        !.stored = IF err = "" THEN @ + tx.pending ELSE @,
                        !.pending = 0, !.ret = err, !.pc = "done"]
    /\ UNCHANGED <<authors, books, calls, ncalls, pageVars, codeString, httpCode, http>>

\* return tx.Commit().Error: a commit that fails stores nothing
TransactionCommit(err) ==
    /\ tx.pc = "end"
    /\ tx.fnErr = ""
    /\ tx' = [tx EXCEPT !.commits = @ + 1,
                        !.stored = IF err = "" THEN @ + tx.pending ELSE @,
                        !.pending = 0, !.ret = err, !.pc = "done"]
    /\ UNCHANGED <<authors, books, calls, ncalls, pageVars, codeString, httpCode, http>>

NextTransaction ==
    \/ \E err \in BeginErrors : TransactionBegin(err)
    \/ \E writes \in 0..MaxWrites, err \in FnErrors : TransactionFn(writes, err)
    \/ \E err \in RollbackErrors : TransactionRollback(err)
    \/ \E err \in CommitErrors : TransactionCommit(err)

SpecTransaction == InitTransaction /\ [][NextTransaction]_vars

\* ------------------------------------------------------------------ claims
\* p's call has returned from operation op with the given code
Returned(p, op, code) ==
    calls[p].pc = "done" /\ calls[p].op = op /\ calls[p].code = code

LivePenNames(tbl, penName) == {i \in Live(tbl) : tbl[i].penName = penName}

LiveISBNs(tbl, isbn) == {i \in Live(tbl) : tbl[i].isbn = isbn}

\* C1: in every reachable state no two non-deleted authors have the same
\* penName.
C1_PenNameUnique ==
    \A i \in Live(authors), j \in Live(authors) :
        i # j => authors[i].penName # authors[j].penName

\* two non-deleted authors are stored and an UpdateAuthor that asked for the
\* other author's penName was refused by the storage layer
C1_Witness ==
    /\ Cardinality(Live(authors)) = 2
    /\ \E p \in Procs : /\ Returned(p, "UpdateAuthor", InternalError)
                        /\ calls[p].err = "duplicate"

\* C2: in every reachable state no two non-deleted books have the same ISBN.
C2_ISBNUnique ==
    \A i \in Live(books), j \in Live(books) :
        i # j => books[i].isbn # books[j].isbn

\* two non-deleted books are stored and an UpdateBook that asked for the
\* other book's ISBN was refused by the storage layer
C2_Witness ==
    /\ Cardinality(Live(books)) = 2
    /\ \E p \in Procs : /\ Returned(p, "UpdateBook", InternalError)
                        /\ calls[p].err = "duplicate"

\* p's CreateBook or UpdateBook writes its book row in this step and returns
\* Success
BookWritten(p) ==
    /\ calls[p].pc \in {"CB_Create", "UB_Update"}
    /\ calls'[p].pc = "done"
    /\ calls'[p].code = Success

\* C3 as claimed: whenever CreateBook or UpdateBook returns Success, the
\* author of the written authorID is a non-deleted author at the moment the
\* book row is written, under every interleaving with DeleteAuthor.
C3_AuthorLiveAtWrite ==
    [][\A p \in Procs : BookWritten(p) => calls[p].authorID \in Live(authors)]_vars

\* C3 as amended: whenever CreateBook or UpdateBook returns Success, the
\* author of the written authorID was a non-deleted author when the service
\* looked it up (GetAuthorByID), and is still a stored author row, deleted
\* or not, when the book row is written.
C3_AuthorLiveAtLookup ==
    [][\A p \in Procs :
         /\ (calls[p].pc # "CB_GetByISBN" /\ calls'[p].pc = "CB_GetByISBN")
               => calls'[p].authorID \in Live(authors)
         /\ (calls[p].pc # "UB_Update" /\ calls'[p].pc = "UB_Update")
               => calls'[p].authorID \in Live(authors)
         /\ BookWritten(p) => calls[p].authorID \in 1..Len(authors)]_vars

\* a CreateBook returned Success, and the book it stored references an author
\* that a DeleteAuthor has deleted
C3_Witness ==
    \E p \in Procs, q \in Procs :
        /\ Returned(p, "CreateBook", Success)
        /\ Returned(q, "DeleteAuthor", Success)
        /\ calls[p].res \in Live(books)
        /\ books[calls[p].res].authorID \notin Live(authors)

\* both p and q have completed the uniqueness lookup of a CreateAuthor for the
\* same penName (of a CreateBook for the same ISBN) and neither has inserted
AuthorRace(p, q) ==
    /\ p # q
    /\ calls[p].pc = "CA_Create" /\ calls[q].pc = "CA_Create"
    /\ calls[p].penName = calls[q].penName

BookRace(p, q) ==
    /\ p # q
    /\ calls[p].pc = "CB_Create" /\ calls[q].pc = "CB_Create"
    /\ calls[p].isbn = calls[q].isbn

\* C4: when two CreateAuthor calls with the same penName (two CreateBook
\* calls with the same ISBN) have both completed their lookups before either
\* insert, exactly one returns Success and the other InternalError, and one
\* entity with that key is stored: the insert made first, when storage is
\* up, returns Success and stores the entity, and an insert made when a
\* non-deleted entity holds the key returns InternalError and stores nothing.
C4_RaceOneSuccess ==
    [][\A p \in Procs :
         /\ (CreateAuthor_Create(p, FALSE) /\ \E q \in Procs : AuthorRace(p, q))
               => /\ calls'[p].code = Success
                  /\ Cardinality(LivePenNames(authors', calls[p].penName)) = 1
         /\ (CreateAuthor_Create(p, FALSE)
                /\ LivePenNames(authors, calls[p].penName) # {})
               => calls'[p].code = InternalError /\ authors' = authors
         /\ (CreateBook_Create(p, FALSE) /\ \E q \in Procs : BookRace(p, q))
               => /\ calls'[p].code = Success
                  /\ Cardinality(LiveISBNs(books', calls[p].isbn)) = 1
         /\ (CreateBook_Create(p, FALSE)
                /\ LiveISBNs(books, calls[p].isbn) # {})
               => calls'[p].code = InternalError /\ books' = books]_vars

\* every call so far was made by p, one after the other
Alone(p) == \A q \in Procs \ {p} : calls[q].pc = "idle"

\* C5: after an author (a book) is deleted its natural key is available
\* again: a CreateAuthor with the deleted author's penName (a CreateBook with
\* the deleted book's ISBN and an existing author) that runs after the delete
\* returns Success and stores a new entity.
C5_KeyReusedAfterDelete ==
    [][\A p \in Procs :
         /\ (/\ Alone(p)
             /\ CreateAuthor_Create(p, FALSE)
             /\ \E i \in 1..Len(authors) :
                   authors[i].deleted /\ authors[i].penName = calls[p].penName)
               => /\ calls'[p].code = Success
                  /\ Len(authors') = Len(authors) + 1
         /\ (/\ Alone(p)
             /\ CreateBook_Create(p, FALSE)
             /\ calls[p].authorID \in Live(authors)
             /\ \E i \in 1..Len(books) :
                   books[i].deleted /\ books[i].isbn = calls[p].isbn)
               => /\ calls'[p].code = Success
                  /\ Len(books') = Len(books) + 1]_vars

\* C6: after an UpdateAuthor (UpdateBook) that returned Success, GetByID
\* returns exactly the field values of the update request for every mutable
\* field, for every request value the service accepts.
C6_UpdateReplacesAllFields ==
    [][\A p \in Procs :
         /\ (UpdateAuthor_Update(p, FALSE) /\ calls'[p].code = Success
                /\ AuthorGetByID(authors', calls[p].id) # Nil)
               => /\ authors'[calls[p].id].penName = calls[p].penName
                  /\ authors'[calls[p].id].birthYear = calls[p].birthYear
         /\ (UpdateBook_Update(p, FALSE) /\ calls'[p].code = Success
                /\ BookGetByID(books', calls[p].id) # Nil)
               => /\ books'[calls[p].id].authorID = calls[p].authorID
                  /\ books'[calls[p].id].name = calls[p].name
                  /\ books'[calls[p].id].isbn = calls[p].isbn]_vars

\* p takes a request for operation op in this step and makes its first
\* repository call, which storage answers
Called(p, op) ==
    /\ Accept(p)
    /\ calls'[p].op = op
    /\ calls'[p].err # "conn"

\* C7: CreateAuthor called with a penName that a non-deleted author holds
\* returns AuthorAlreadyExists with a nil result, without inserting: the
\* stored authors are the same before and after the call.  (The call goes on
\* to its insert only with a penName no non-deleted author holds, and
\* otherwise returns at once, with these results.)
C7_CreateAuthorAlreadyExists ==
    [][\A p \in Procs :
         Called(p, "CreateAuthor")
            => /\ authors' = authors
               /\ \/ /\ calls'[p].pc = "CA_Create"
                     /\ LivePenNames(authors, calls'[p].penName) = {}
                  \/ /\ calls'[p].pc = "done"
                     /\ calls'[p].code = AuthorAlreadyExists
                     /\ calls'[p].res = Nil]_vars

C7_Witness ==
    \E p \in Procs : /\ Returned(p, "CreateAuthor", AuthorAlreadyExists)
                     /\ authors # <<>>

\* C8: CreateBook called with an authorID that matches no non-deleted author
\* returns AuthorNotFound with a nil result and inserts nothing, whatever the
\* ISBN, with the author service reporting the missing author as
\* (nil, Success).  (The call goes on to its ISBN lookup only with the
\* authorID of a non-deleted author, and otherwise returns at once, with
\* these results.)
C8_CreateBookAuthorNotFound ==
    [][\A p \in Procs :
         Called(p, "CreateBook")
            => /\ books' = books
               /\ \A id \in AuthorIDs \ Live(authors) :
                     GetAuthorByID(authors, id, FALSE) = [author |-> Nil, code |-> Success]
               /\ \/ /\ calls'[p].pc = "CB_GetByISBN"
                     /\ calls'[p].authorID \in Live(authors)
                  \/ /\ calls'[p].pc = "done"
                     /\ calls'[p].code = AuthorNotFound
                     /\ calls'[p].res = Nil]_vars

\* a CreateBook returned AuthorNotFound while a book was stored whose ISBN
\* the request could have repeated
C8_Witness ==
    \E p \in Procs : /\ Returned(p, "CreateBook", AuthorNotFound)
                     /\ Live(books) # {}

\* C9: CreateBook called with an existing author and an ISBN that a
\* non-deleted book holds returns BookAlreadyExists with a nil result and
\* inserts nothing.
C9_CreateBookAlreadyExists ==
    [][\A p \in Procs :
         (/\ CreateBook_GetByISBN(p, FALSE)
          /\ LiveISBNs(books, calls[p].isbn) # {})
            => /\ calls'[p].pc = "done"
               /\ calls'[p].code = BookAlreadyExists
               /\ calls'[p].res = Nil
               /\ books' = books]_vars

C9_Witness ==
    \E p \in Procs : /\ Returned(p, "CreateBook", BookAlreadyExists)
                     /\ Live(books) # {}

\* C10: UpdateBook called with the id of an existing book and an authorID
\* that matches no non-deleted author returns AuthorNotFound and issues no
\* storage update: the book's authorID, name and ISBN are unchanged.
C10_UpdateBookAuthorNotFound ==
    [][\A p \in Procs :
         (/\ UpdateBook_GetAuthorByID(p, FALSE)
          /\ calls[p].authorID \notin Live(authors))
            => /\ calls'[p].pc = "done"
               /\ calls'[p].code = AuthorNotFound
               /\ books' = books]_vars

C10_Witness ==
    \E p \in Procs : /\ Returned(p, "UpdateBook", AuthorNotFound)
                     /\ Live(books) # {}

\* C11: a CreateAuthor that returns Success, followed by GetAuthorByID on the
\* returned id, yields an author with that id and the penName and birthYear
\* of the create request; and until an UpdateAuthor or DeleteAuthor is made
\* on it, no step changes a stored author.
C11_CreateThenGet ==
    [][/\ \A p \in Procs :
            (/\ calls[p].pc = "CA_Create"
             /\ calls'[p].pc = "done"
             /\ calls'[p].code = Success)
               => LET r == GetAuthorByID(authors', calls'[p].res, FALSE)
                  IN /\ r.code = Success
                     /\ r.author # Nil
                     /\ r.author = calls'[p].res
                     /\ authors'[r.author].penName = calls[p].penName
                     /\ authors'[r.author].birthYear = calls[p].birthYear
       /\ \A i \in 1..Len(authors) :
            authors'[i] # authors[i]
               => \E q \in Procs :
                     \/ calls[q].pc = "UA_Update" /\ calls[q].id = i
                     \/ Called(q, "DeleteAuthor")]_vars

\* a CreateAuthor returned Success and the author it returned is stored with
\* a birthYear of the valid range
C11_Witness ==
    \E p \in Procs : /\ Returned(p, "CreateAuthor", Success)
                     /\ calls[p].res \in Live(authors)
                     /\ authors[calls[p].res].birthYear = 1900

\* C12: DeleteAuthor and DeleteBook called with an id that matches no
\* non-deleted entity (never created, or already deleted) return Success and
\* leave the store unchanged; a second delete of the same id after any
\* delete changes nothing.
C12_DeleteIdempotent ==
    [][\A p \in Procs :
         /\ Called(p, "DeleteAuthor")
               => \A id \in AuthorIDs :
                     DeleteAuthor(p, id, FALSE)
                        => /\ calls'[p].code = Success
                           /\ id \notin Live(authors) => authors' = authors
                           /\ AuthorDelete(authors', id) = authors'
         /\ Called(p, "DeleteBook")
               => \A id \in BookIDs :
                     DeleteBook(p, id, FALSE)
                        => /\ calls'[p].code = Success
                           /\ id \notin Live(books) => books' = books
                           /\ BookDelete(books', id) = books']_vars

\* a DeleteAuthor of an author deleted before has returned Success: the only
\* stored author is deleted and two DeleteAuthor calls have returned Success
C12_Witness ==
    /\ Len(authors) = 1
    /\ authors[1].deleted
    /\ \A p \in Procs : Returned(p, "DeleteAuthor", Success)


\* the pagination requests a list read is tried with
Range(f) == {f[i] : i \in DOMAIN f}

\* no read of the author table atbl returns row i: not the lookup by id, not
\* the lookup by penName, no page of the list in any order, and the total
\* count counts the other rows only; nor is it attached to a book
AuthorExcluded(atbl, btbl, i) ==
    /\ AuthorGetByID(atbl, i) = Nil
    /\ AuthorGetByPenName(atbl, atbl[i].penName) # i
    /\ \A p \in PageRequests :
          /\ \A ord \in Orders(Live(atbl)) :
                LET r == AuthorGetAll(atbl, p, ord)
                IN /\ i \notin Range(r.Items)
                   /\ r.Pagination.TotalItems <= Len(atbl) - 1
    /\ \A b \in Live(btbl) : PreloadAuthor(atbl, btbl[b]) # i

BookExcluded(btbl, i) ==
    /\ BookGetByID(btbl, i) = Nil
    /\ BookGetByISBN(btbl, btbl[i].isbn) # i
    /\ \A p \in PageRequests :
          /\ \A ord \in Orders(Live(btbl)) :
                LET r == BookGetAll(btbl, p, ord)
                IN /\ i \notin Range(r.Items)
                   /\ r.Pagination.TotalItems <= Len(btbl) - 1
          /\ \A ord \in Orders(BooksOfAuthor(btbl, btbl[i].authorID)) :
                LET r == BookGetByAuthorID(btbl, btbl[i].authorID, p, ord)
                IN /\ i \notin Range(r.Items)
                   /\ r.Pagination.TotalItems <= Len(btbl) - 1

\* C13: after DeleteAuthor(id) or DeleteBook(id) returns Success the entity
\* is excluded from every later read: a delete that returns Success leaves no
\* non-deleted entity with that id, no later step brings a deleted entity
\* back, and whenever a table has changed every deleted entity in it is
\* excluded from the lookups by id and by natural key, from every page of
\* the lists and from their total counts.
C13_DeletedExcludedFromReads ==
    [][/\ \A p \in Procs :
            /\ Called(p, "DeleteAuthor")
                  => \A id \in AuthorIDs :
                        (DeleteAuthor(p, id, FALSE) /\ id \in 1..Len(authors))
                           => authors'[id].deleted
            /\ Called(p, "DeleteBook")
                  => \A id \in BookIDs :
                        (DeleteBook(p, id, FALSE) /\ id \in 1..Len(books))
                           => books'[id].deleted
       /\ \A i \in 1..Len(authors) : authors[i].deleted => authors'[i].deleted
       /\ \A i \in 1..Len(books) : books[i].deleted => books'[i].deleted
       /\ authors' # authors
             => \A i \in 1..Len(authors') :
                   authors'[i].deleted => AuthorExcluded(authors', books', i)
       /\ books' # books
             => \A i \in 1..Len(books') :
                   books'[i].deleted => BookExcluded(books', i)]_vars

\* a DeleteAuthor has returned Success and the author it deleted is stored,
\* deleted, with a non-deleted book that references it
C13_Witness ==
    /\ \E p \in Procs : Returned(p, "DeleteAuthor", Success)
    /\ \E i \in 1..Len(authors), b \in Live(books) :
          authors[i].deleted /\ books[b].authorID = i

\* C14: lookup by id of an entity that does not exist (never created, or
\* deleted) differs between the services: GetAuthorByID returns Success with
\* a nil author and never AuthorNotFound; GetBookByID returns BookNotFound
\* with a nil book and never Success with a nil book.
C14_NotFoundAsymmetry ==
    /\ \A id \in AuthorIDs, fail \in Failures :
          LET r == GetAuthorByID(authors, id, fail)
          IN /\ r.code # AuthorNotFound
             /\ (~fail /\ id \notin Live(authors))
                   => r = [author |-> Nil, code |-> Success]
    /\ \A id \in BookIDs, fail \in Failures :
          LET r == GetBookByID(books, id, fail)
          IN /\ ~(r.code = Success /\ r.book = Nil)
             /\ (~fail /\ id \notin Live(books))
                   => r = [book |-> Nil, code |-> BookNotFound]

\* a deleted author and a deleted book are stored, and an id of each kind
\* was never given to a row
C14_Witness ==
    /\ \E i \in 1..Len(authors) : authors[i].deleted
    /\ \E i \in 1..Len(books) : books[i].deleted
    /\ AuthorIDs \ (1..Len(authors)) # {}
    /\ BookIDs \ (1..Len(books)) # {}


\* C15: a GET of an author by a well-formed id that matches no stored author
\* is answered by the GetAuthor endpoint with HTTP 404 and code
\* AuthorNotFound (40402).
C15_GetAuthorNotFound ==
    [][\A param \in PathParams(AuthorIDs) :
         (/\ HandleGetAuthor(param, FALSE)
          /\ param.wellFormed
          /\ param.id \notin Live(authors))
            => /\ http'.status = 404
               /\ http'.code = AuthorNotFound]_vars

SuccessCodes == {Success, Created, Updated, Deleted}

\* C16: every create or update request whose body is JSON of the right types
\* but violates a field constraint is answered with HTTP 400, code
\* ValidationError and a list of messages, never with BindingError;
\* BindingError answers only a body that is not well-formed or not
\* well-typed JSON.
C16_ValidationNotBinding ==
    [][/\ \A body \in AuthorBodies, param \in PathParams(AuthorIDs) :
            (\/ HandleCreateAuthor(body, 0)
             \/ param.wellFormed /\ HandleUpdateAuthor(param, body, 0))
               => /\ (body.json = "object" /\ ValidateAuthor(body) # <<>>)
                        => /\ http'.status = 400
                           /\ http'.code = ValidationError
                           /\ http'.data.kind = "list"
                           /\ http'.data.strings # <<>>
                  /\ http'.code = BindingError => body.json # "object"
       /\ \A body \in BookBodies, param \in PathParams(BookIDs) :
            (\/ HandleCreateBook(body, 0)
             \/ param.wellFormed /\ HandleUpdateBook(param, body, 0))
               => /\ (body.json = "object" /\ ValidateBook(body) # <<>>)
                        => /\ http'.status = 400
                           /\ http'.code = ValidationError
                           /\ http'.data.kind = "list"
                           /\ http'.data.strings # <<>>
                  /\ http'.code = BindingError => body.json # "object"]_vars

\* C17: in every handler response whose code is not a success code the data
\* field is absent, except that a ValidationError response carries the list
\* of validation messages; BindingError and UUIDFormatInvalid responses
\* carry no data.
C17_NoDataOnError ==
    (http.handler # "" /\ http.code \notin SuccessCodes)
       => IF http.code = ValidationError
          THEN http.data.kind = "list" /\ http.data.strings # <<>>
          ELSE http.data = NoData

\* C18: every pagination request that a handler passes to a service has
\* page >= 1 and 1 <= pageSize <= 100, whatever page and pageSize query
\* strings the client sends: a pageSize above 100 is rejected before the
\* service is called.
C18_PaginationInRange ==
    (http.called /\ http.handler \in {"GetAllAuthors", "GetAllBooks", "GetBooksByAuthorID"})
       => /\ http.pagination.Page >= 1
          /\ http.pagination.PageSize >= 1
          /\ http.pagination.PageSize <= 100

\* C19: NewPaginationRequest(page, pageSize) returns, for every pair of
\* input strings, a request whose Page is the parsed integer when the page
\* string is a positive integer and 1 otherwise, and whose PageSize is the
\* parsed integer when the pageSize string is a positive integer and 10
\* otherwise; there is one message for each non-empty input that is not a
\* positive integer, and no other message.  An integer is a value of int:
\* decimal digits after an optional plus sign, within the range of int.
RECURSIVE Horner(_, _)
Horner(acc, s) ==
    IF s = <<>> THEN acc
    ELSE Horner(10 * acc + DigitValue(Head(s)), Tail(s))

Unsigned(s) == IF s # <<>> /\ s[1] = "+" THEN Tail(s) ELSE s

IsPositiveInteger(s) ==
    /\ Unsigned(s) # <<>>
    /\ \A i \in 1..Len(Unsigned(s)) : Unsigned(s)[i] \in Digits
    /\ \E i \in 1..Len(Unsigned(s)) : Unsigned(s)[i] # "0"
    /\ ~Larger(TrimZeros(Unsigned(s)), MaxInt64)

Offending(s) == s # <<>> /\ ~IsPositiveInteger(s)

C19_NewPaginationRequest ==
    pagination # NotParsed
       => /\ pagination.pagination.Page =
                IF IsPositiveInteger(query.page) THEN Horner(0, Unsigned(query.page)) ELSE 1
          /\ pagination.pagination.PageSize =
                IF IsPositiveInteger(query.pageSize)
                THEN Horner(0, Unsigned(query.pageSize)) ELSE 10
          /\ pagination.errors =
                (IF Offending(query.page) THEN <<"Page must be greater than 0">> ELSE <<>>)
                \o (IF Offending(query.pageSize)
                    THEN <<"Page size must be greater than 0">> ELSE <<>>)
          /\ (pagination.errors # <<>>) <=> (Offending(query.page) \/ Offending(query.pageSize))

\* a page of "0" is answered with the default page and one message, next to
\* a page size that parses
C19_Witness ==
    /\ query = [page |-> <<"0">>, pageSize |-> <<"1", "1">>]
    /\ pagination = [pagination |-> [Page |-> 1, PageSize |-> 11],
                     errors |-> <<"Page must be greater than 0">>]

\* C20: NewPaginationResponse(req, totalItems) returns totalPages =
\* max(1, ceil(totalItems / pageSize)) for every totalItems >= 0 and
\* pageSize >= 1, and echoes page, pageSize and totalItems unchanged; the
\* request's GetOffset is (page-1)*pageSize and GetLimit is pageSize.
C20_NewPaginationResponse ==
    LET req == pagination.pagination
    IN response # NoResponse
          => /\ response.TotalPages >= 1
             /\ response.TotalPages * req.PageSize >= totalItems
             /\ response.TotalPages > 1
                   => (response.TotalPages - 1) * req.PageSize < totalItems
             /\ response.Page = req.Page
             /\ response.PageSize = req.PageSize
             /\ response.TotalItems = totalItems
             /\ GetOffset(req) + req.PageSize = req.Page * req.PageSize
             /\ GetLimit(req) = req.PageSize

\* no items at all: one page, not zero
C20_Witness ==
    /\ totalItems = 0
    /\ response # NoResponse
    /\ response.TotalPages = 1

\* the list service returned r for the pagination request p: Success with
\* no item, totalItems = 0 and totalPages = 1
EmptyPage(r, p) ==
    /\ r.code = Success
    /\ DOMAIN r.page.Items = {}
    /\ r.page.Pagination =
          [Page |-> p.Page, PageSize |-> p.PageSize, TotalPages |-> 1, TotalItems |-> 0]

\* C21: GetAllAuthors, GetAllBooks and GetBooksByAuthorID on a store with no
\* matching non-deleted entity return Success (not an error code) with an
\* empty item list, totalItems = 0 and totalPages = 1, for every valid
\* pagination request.
C21_EmptyListSuccess ==
    \A p \in PageRequests :
        /\ Live(authors) = {}
              => \A ord \in Orders(Live(authors)) :
                    EmptyPage(GetAllAuthors(authors, p, ord, FALSE), p)
        /\ Live(books) = {}
              => \A ord \in Orders(Live(books)) :
                    EmptyPage(GetAllBooks(books, p, ord, FALSE), p)
        /\ \A authorID \in AuthorIDs \cup {Nil} :
              BooksOfAuthor(books, authorID) = {}
                 => \A ord \in Orders(BooksOfAuthor(books, authorID)) :
                       EmptyPage(GetBooksByAuthorID(books, authorID, p, ord, FALSE), p)

\* authors and books are stored and every one of them is deleted
C21_Witness ==
    /\ authors # <<>> /\ Live(authors) = {}
    /\ books # <<>> /\ Live(books) = {}

\* C22: Code.GetHTTPCode returns, for every code string, the integer formed
\* by its first three characters when those three characters are decimal
\* digits, and 500 in every other case (fewer than three characters, or any
\* of the first three characters not a digit).
C22_GetHTTPCode ==
    httpCode.called
       => httpCode.status =
             IF Len(codeString) >= 3 /\ \A i \in 1..3 : codeString[i] \in Digits
             THEN Horner(0, SubSeq(codeString, 1, 3))
             ELSE 500

\* C23: every code of the declared code set (all standard and custom Code
\* constants) maps to a fixed non-empty message, so BuildBaseResponse(code,
\* data) has a non-empty Message for every declared code.
C23_EveryCodeHasMessage ==
    http.handler = "BuildBaseResponse"
       => /\ http.message # ""
          /\ http.message = CodeMessage(http.code)

\* the repository calls a service call in flight still has to make, at most
Rank(pc) ==
    CASE pc \in {"CB_GetByISBN", "UB_GetAuthorByID"} -> 2
      [] pc \in {"CA_Create", "UA_Update", "CB_Create", "UB_Update"} -> 1
      [] OTHER -> 0

\* p's call in flight makes its next repository call, which storage answers
\* or fails
Step(p) ==
    \E fail \in Failures :
        \/ CreateAuthor_Create(p, fail)
        \/ UpdateAuthor_Update(p, fail)
        \/ CreateBook_GetByISBN(p, fail)
        \/ CreateBook_Create(p, fail)
        \/ UpdateBook_GetAuthorByID(p, fail)
        \/ UpdateBook_Update(p, fail)

\* a first page that holds every row, and a last page of one row
SomePages ==
    {[Page |-> 1, PageSize |-> MaxPageSize], [Page |-> MaxPage, PageSize |-> 1]}

\* the read operations, called in the store (atbl, btbl) with any id, with
\* the pages of SomePages and any outcome of their repository call, return
\* one declared code, and an entity or a list only with Success
ReadsReturnOneCode(atbl, btbl) ==
    \A fail \in Failures :
        /\ \A id \in AuthorIDs \cup {Nil} :
              /\ GetAuthorByID(atbl, id, fail).code \in Codes
              /\ GetAuthorByID(atbl, id, fail).author # Nil
                    => GetAuthorByID(atbl, id, fail).code = Success
        /\ \A id \in BookIDs \cup {Nil} :
              /\ GetBookByID(btbl, id, fail).code \in Codes
              /\ GetBookByID(btbl, id, fail).book # Nil
                    => GetBookByID(btbl, id, fail).code = Success
        /\ \A req \in SomePages :
              /\ \A ord \in Orders(Live(atbl)) :
                    LET r == GetAllAuthors(atbl, req, ord, fail)
                    IN r.code \in Codes /\ (r.code # Success => r.page = Nil)
              /\ \A ord \in Orders(Live(btbl)) :
                    LET r == GetAllBooks(btbl, req, ord, fail)
                    IN r.code \in Codes /\ (r.code # Success => r.page = Nil)
              /\ \A authorID \in AuthorIDs \cup {Nil} :
                    \A ord \in Orders(BooksOfAuthor(btbl, authorID)) :
                       LET r == GetBooksByAuthorID(btbl, authorID, req, ord, fail)
                       IN r.code \in Codes /\ (r.code # Success => r.page = Nil)

\* C24: every AuthorService and BookService operation, for every outcome of
\* its repository and collaborator calls, terminates returning exactly one
\* code of the declared code set, and returns a non-nil entity or list only
\* together with the Success code.  A call in flight can always make its
\* next repository call, and every such call leaves it fewer calls to make;
\* the read operations are called in the first store and in every store a
\* step has changed.
C24_OneDeclaredCode ==
    /\ [](\A p \in Procs :
            /\ calls[p].pc = "done"
                  => /\ calls[p].code \in Codes
                     /\ calls[p].res # Nil => calls[p].code = Success
            /\ calls[p].pc \notin {"idle", "done"}
                  => /\ calls[p].code = ""
                     /\ ENABLED Step(p))
    /\ ReadsReturnOneCode(authors, books)
    /\ [][/\ (authors' # authors \/ books' # books)
               => ReadsReturnOneCode(authors', books')
          /\ \A p \in Procs :
               (calls[p].pc \notin {"idle", "done"} /\ calls'[p] # calls[p])
                  => Rank(calls'[p].pc) < Rank(calls[p].pc)]_vars

\* a CreateBook has returned Success with the book it stored while another
\* call has returned a not-found or already-exists code with no entity
C24_Witness ==
    \E p \in Procs, q \in Procs :
        /\ Returned(p, "CreateBook", Success)
        /\ calls[p].res \in Live(books)
        /\ calls[q].pc = "done"
        /\ calls[q].code \in {BookNotFound, AuthorNotFound, BookAlreadyExists,
                              AuthorAlreadyExists}
        /\ calls[q].res = Nil

\* p's call makes a repository call in this step and storage fails it: the
\* first call of the request that p takes, or the next call of p's request
FailedCall(p) ==
    IF ncalls' # ncalls
    THEN CASE calls'[p].op = "CreateAuthor" ->
                \E penName \in Sent(PenNames, TRUE), birthYear \in Sent(BirthYears, TRUE) :
                   CreateAuthor_GetByPenName(p, penName, birthYear, TRUE)
           [] calls'[p].op = "UpdateAuthor" ->
                \E id \in Sent(AuthorIDs, TRUE), penName \in Sent(PenNames, TRUE),
                   birthYear \in Sent(BirthYears, TRUE) :
                   UpdateAuthor_GetByID(p, id, penName, birthYear, TRUE)
           [] calls'[p].op = "DeleteAuthor" ->
                \E id \in Sent(AuthorIDs, TRUE) : DeleteAuthor(p, id, TRUE)
           [] calls'[p].op = "CreateBook" ->
                \E authorID \in Sent(AuthorIDs, TRUE), name \in Sent(BookNames, TRUE),
                   isbn \in Sent(ISBNs, TRUE) :
                   CreateBook_GetAuthorByID(p, authorID, name, isbn, TRUE)
           [] calls'[p].op = "UpdateBook" ->
                \E id \in Sent(BookIDs, TRUE), authorID \in Sent(AuthorIDs, TRUE),
                   name \in Sent(BookNames, TRUE), isbn \in Sent(ISBNs, TRUE) :
                   UpdateBook_GetByID(p, id, authorID, name, isbn, TRUE)
           [] calls'[p].op = "DeleteBook" ->
                \E id \in Sent(BookIDs, TRUE) : DeleteBook(p, id, TRUE)
           [] OTHER -> FALSE
    ELSE CASE calls[p].pc = "CA_Create" -> CreateAuthor_Create(p, TRUE)
           [] calls[p].pc = "UA_Update" -> UpdateAuthor_Update(p, TRUE)
           [] calls[p].pc = "CB_GetByISBN" -> CreateBook_GetByISBN(p, TRUE)
           [] calls[p].pc = "CB_Create" -> CreateBook_Create(p, TRUE)
           [] calls[p].pc = "UB_GetAuthorByID" -> UpdateBook_GetAuthorByID(p, TRUE)
           [] calls[p].pc = "UB_Update" -> UpdateBook_Update(p, TRUE)
           [] OTHER -> FALSE

\* the read operations whose repository call fails return InternalError and
\* nothing else
FailedReads ==
    /\ \A id \in AuthorIDs \cup {Nil} :
          GetAuthorByID(authors, id, TRUE) = [author |-> Nil, code |-> InternalError]
    /\ \A id \in BookIDs \cup {Nil} :
          GetBookByID(books, id, TRUE) = [book |-> Nil, code |-> InternalError]
    /\ \A req \in SomePages :
          /\ \A ord \in Orders(Live(authors)) :
                GetAllAuthors(authors, req, ord, TRUE) = [page |-> Nil, code |-> InternalError]
          /\ \A ord \in Orders(Live(books)) :
                GetAllBooks(books, req, ord, TRUE) = [page |-> Nil, code |-> InternalError]
          /\ \A authorID \in AuthorIDs \cup {Nil} :
                \A ord \in Orders(BooksOfAuthor(books, authorID)) :
                   GetBooksByAuthorID(books, authorID, req, ord, TRUE)
                      = [page |-> Nil, code |-> InternalError]

\* C25: if any repository call made by a service operation fails with a
\* storage error, the operation returns InternalError (never Success or a
\* domain not-found / already-exists code), makes no further storage call,
\* and leaves the store as it was before the operation: the failed call
\* changes no row and ends the operation, and the calls an operation makes
\* before its last one are reads.
C25_StorageErrorIsInternalError ==
    [][/\ \A p \in Procs :
            /\ (FailedCall(p) \/ (calls'[p] # calls[p] /\ calls'[p].err # ""))
                  => /\ calls'[p].pc = "done"
                     /\ calls'[p].code = InternalError
                     /\ calls'[p].res = Nil
                     /\ authors' = authors
                     /\ books' = books
            /\ (calls'[p] # calls[p] /\ calls'[p].pc # "done")
                  => authors' = authors /\ books' = books
       /\ (authors' # authors \/ books' # books) => FailedReads']_vars

\* an UpdateBook on a stored book has returned InternalError after a storage
\* error, and the book is as it was created
C25_Witness ==
    \E p \in Procs :
        /\ Returned(p, "UpdateBook", InternalError)
        /\ calls[p].err = "conn"
        /\ Live(books) = {1}
        /\ books[1] = Book(1, "N1", "I1")

\* one of the values: a call that returns at its first check returns the
\* same whatever the fields it has not looked at yet
OneOf(values) == {CHOOSE v \in values : TRUE}

\* C26: BookService checks run in a fixed order and the first failure
\* decides the result: CreateBook checks the author before the ISBN (missing
\* author and duplicate ISBN together give AuthorNotFound), UpdateBook checks
\* the book before the author (missing book and missing author together give
\* BookNotFound), and a non-success code from the author service is returned
\* verbatim with no later repository call.  (A call goes on to its next
\* lookup only when the check before it has passed, and a call that returns
\* at its first check returns these codes.)
C26_BookChecksInOrder ==
    /\ \A code \in Codes \ {Success}, author \in AuthorIDs \cup {Nil} :
          /\ CreateBookAuthorCheck(author, code) = code
          /\ UpdateBookAuthorCheck(author, code) = code
    /\ [][\A p \in Procs :
            /\ (ncalls' # ncalls /\ calls'[p].op = "CreateBook" /\ calls'[p].pc = "done")
                  => /\ \A authorID \in AuthorIDs \ Live(authors), name \in OneOf(BookNames),
                           isbn \in {i \in ISBNs : LiveISBNs(books, i) # {}} :
                           CreateBook_GetAuthorByID(p, authorID, name, isbn, FALSE)
                              => /\ calls'[p].pc = "done"
                                 /\ calls'[p].code = AuthorNotFound
                     /\ \A authorID \in Sent(AuthorIDs, TRUE), name \in Sent(BookNames, TRUE),
                           isbn \in Sent(ISBNs, TRUE) :
                           CreateBook_GetAuthorByID(p, authorID, name, isbn, TRUE)
                              => /\ calls'[p].pc = "done"
                                 /\ calls'[p].code
                                       = GetAuthorByID(authors, authorID, TRUE).code
            /\ (ncalls' # ncalls /\ calls'[p].op = "UpdateBook" /\ calls'[p].pc = "done")
                  => \A id \in BookIDs \ Live(books), authorID \in AuthorIDs \ Live(authors),
                        name \in OneOf(BookNames), isbn \in OneOf(ISBNs) :
                        UpdateBook_GetByID(p, id, authorID, name, isbn, FALSE)
                           => /\ calls'[p].pc = "done"
                              /\ calls'[p].code = BookNotFound
            /\ (calls[p].pc = "UB_GetAuthorByID" /\ UpdateBook_GetAuthorByID(p, TRUE))
                  => /\ calls'[p].pc = "done"
                     /\ calls'[p].code = GetAuthorByID(authors, calls[p].authorID, TRUE).code
            /\ (calls[p].pc # "CB_GetByISBN" /\ calls'[p].pc = "CB_GetByISBN")
                  => calls'[p].authorID \in Live(authors)
            /\ (calls[p].pc # "UB_GetAuthorByID" /\ calls'[p].pc = "UB_GetAuthorByID")
                  => calls'[p].id \in Live(books)]_vars

\* a CreateBook has returned AuthorNotFound while every ISBN a request can
\* carry was held by a non-deleted book
C26_Witness ==
    /\ \E p \in Procs : Returned(p, "CreateBook", AuthorNotFound)
    /\ \A isbn \in ISBNs : LiveISBNs(books, isbn) # {}

\* the code of the first check that fails, "" when every check passes
FirstFailing(idErr, bindErr, validateErr) ==
    IF idErr THEN UUIDFormatInvalid
    ELSE IF bindErr THEN BindingError
    ELSE IF validateErr THEN ValidationError
    ELSE ""

\* the first failing check of each body and of each query
AuthorBodyCheck ==
    [body \in AuthorBodies |->
        FirstFailing(FALSE, ShouldBindAuthorFails(body), ValidateAuthor(body) # <<>>)]

BookBodyCheck ==
    [body \in BookBodies |->
        FirstFailing(FALSE, ShouldBindBookFails(body), ValidateBook(body) # <<>>)]

QueryCheck ==
    [q \in Queries |->
        FirstFailing(FALSE, FALSE, Len(NewPaginationRequest(q.page, q.pageSize).errors) > 0)]

\* the path id is checked before the body or the query
After(param, code) == IF UUIDParse(param).err THEN UUIDFormatInvalid ELSE code

\* the response of the step is decided by the check that failed first with
\* code, and the service is called exactly when no check failed
Checked(code) ==
    IF code # ""
    THEN /\ http'.code = code
         /\ http'.status = 400
         /\ ~http'.called
         /\ authors' = authors
         /\ books' = books
    ELSE http'.called

\* C27: in every handler the checks run in the order path-id parse, JSON
\* bind, field validation (or pagination parse), then the service call; the
\* first check that fails decides the response code (UUIDFormatInvalid,
\* BindingError, ValidationError respectively), and a request that fails a
\* check never reaches the service, so the store is unchanged.
C27_ChecksInOrder ==
    [][/\ (ncalls' # ncalls /\ http'.handler = "CreateAuthor")
             => \A body \in AuthorBodies :
                   \/ Checked(AuthorBodyCheck[body])
                   \/ \A failAt \in FailAt(2) : ~HandleCreateAuthor(body, failAt)
       /\ (ncalls' # ncalls /\ http'.handler = "UpdateAuthor")
             => \A param \in PathParams(AuthorIDs), body \in AuthorBodies :
                   \/ Checked(After(param, AuthorBodyCheck[body]))
                   \/ \A failAt \in FailAt(2) : ~HandleUpdateAuthor(param, body, failAt)
       /\ (ncalls' # ncalls /\ http'.handler = "CreateBook")
             => \A body \in BookBodies :
                   \/ Checked(BookBodyCheck[body])
                   \/ \A failAt \in FailAt(3) : ~HandleCreateBook(body, failAt)
       /\ (ncalls' # ncalls /\ http'.handler = "UpdateBook")
             => \A param \in PathParams(BookIDs), body \in BookBodies :
                   \/ Checked(After(param, BookBodyCheck[body]))
                   \/ \A failAt \in FailAt(3) : ~HandleUpdateBook(param, body, failAt)
       /\ (ncalls' # ncalls /\ http'.handler = "GetAuthor")
             => \A param \in PathParams(AuthorIDs) :
                   \/ Checked(After(param, ""))
                   \/ \A fail \in Failures : ~HandleGetAuthor(param, fail)
       /\ (ncalls' # ncalls /\ http'.handler = "DeleteAuthor")
             => \A param \in PathParams(AuthorIDs) :
                   \/ Checked(After(param, ""))
                   \/ \A fail \in Failures : ~HandleDeleteAuthor(param, fail)
       /\ (ncalls' # ncalls /\ http'.handler = "GetBooksByAuthorID")
             => \A param \in PathParams(AuthorIDs), q \in Queries :
                   \/ Checked(After(param, QueryCheck[q]))
                   \/ \A fail \in Failures, ord \in Orders(BooksOfAuthor(books, param.id)) :
                         ~HandleGetBooksByAuthorID(param, q, ord, fail)
       /\ (ncalls' # ncalls /\ http'.handler = "GetBook")
             => \A param \in PathParams(BookIDs) :
                   \/ Checked(After(param, ""))
                   \/ \A fail \in Failures : ~HandleGetBook(param, fail)
       /\ (ncalls' # ncalls /\ http'.handler = "DeleteBook")
             => \A param \in PathParams(BookIDs) :
                   \/ Checked(After(param, ""))
                   \/ \A fail \in Failures : ~HandleDeleteBook(param, fail)
       /\ (ncalls' # ncalls /\ http'.handler = "GetAllAuthors")
             => \A q \in Queries :
                   \/ Checked(QueryCheck[q])
                   \/ \A fail \in Failures, ord \in Orders(Live(authors)) :
                         ~HandleGetAllAuthors(q, ord, fail)
       /\ (ncalls' # ncalls /\ http'.handler = "GetAllBooks")
             => \A q \in Queries :
                   \/ Checked(QueryCheck[q])
                   \/ \A fail \in Failures, ord \in Orders(Live(books)) :
                         ~HandleGetAllBooks(q, ord, fail)]_vars

\* with an author and a book stored, an update of a book was refused for its
\* path id, without a call of the service
C27_Witness ==
    /\ http.handler = "UpdateBook"
    /\ http.code = UUIDFormatInvalid
    /\ ~http.called
    /\ Live(authors) # {}
    /\ Live(books) # {}

\* C28: Transaction begins a transaction, runs the callback once, and then
\* commits exactly when the callback returned nil, and rolls back and
\* returns the callback's error otherwise; when beginning fails the callback
\* is never run and the begin error is returned; no transaction is both
\* committed and rolled back.  (A callback that returns: one that panics,
\* or that ends the transaction it was handed, is not in the model.)
C28_Transaction ==
    /\ tx.begun <= 1 /\ tx.runs <= 1 /\ tx.commits <= 1 /\ tx.rollbacks <= 1
    /\ tx.runs = 1 => tx.begun = 1 /\ tx.beginErr = ""
    /\ tx.commits + tx.rollbacks > 0 => tx.runs = 1
    /\ ~(tx.commits > 0 /\ tx.rollbacks > 0)
    /\ tx.pc = "done"
          => IF tx.beginErr # ""
             THEN /\ tx.runs = 0
                  /\ tx.commits = 0
                  /\ tx.rollbacks = 0
                  /\ tx.ret = tx.beginErr
             ELSE /\ tx.runs = 1
                  /\ tx.commits = 1 <=> tx.fnErr = ""
                  /\ tx.rollbacks = 1 <=> tx.fnErr # ""
                  /\ tx.fnErr # "" => tx.ret = tx.fnErr

\* after a transaction that stored its writes, one was rolled back and
\* returned the error of its callback, which had written
C28_Witness ==
    /\ tx.pc = "done"
    /\ tx.stored > 0
    /\ tx.rollbacks = 1
    /\ tx.ret = "transaction failed"

\* C29: if UpdateAuthor or UpdateBook returns Success, then once the storage
\* update has completed a non-deleted entity with the given id holds the
\* field values of the request, under every interleaving with a concurrent
\* DeleteAuthor / DeleteBook of the same id; an update never reports Success
\* while having modified no row.  (Stated for requests with no zero-valued
\* field, which are the requests the handlers pass on.)
C29_UpdateSuccessModifiesRow ==
    [][\A p \in Procs :
         /\ (/\ calls[p].pc = "UA_Update"
             /\ calls[p].penName # "" /\ calls[p].birthYear # 0
             /\ UpdateAuthor_Update(p, FALSE)
             /\ calls'[p].code = Success)
               => /\ calls[p].id \in Live(authors)
                  /\ calls[p].id \in Live(authors')
                  /\ authors'[calls[p].id].penName = calls[p].penName
                  /\ authors'[calls[p].id].birthYear = calls[p].birthYear
         /\ (/\ calls[p].pc = "UB_Update"
             /\ calls[p].authorID # Nil /\ calls[p].name # "" /\ calls[p].isbn # ""
             /\ UpdateBook_Update(p, FALSE)
             /\ calls'[p].code = Success)
               => /\ calls[p].id \in Live(books)
                  /\ calls[p].id \in Live(books')
                  /\ books'[calls[p].id].authorID = calls[p].authorID
                  /\ books'[calls[p].id].name = calls[p].name
                  /\ books'[calls[p].id].isbn = calls[p].isbn]_vars

\* C30: DeleteAuthor changes no book: every book stored before
\* DeleteAuthor(id) is still stored afterwards with the same authorID, name
\* and ISBN, and the delete succeeds also when books reference the author,
\* so that a non-deleted book can reference a deleted author.
C30_DeleteAuthorKeepsBooks ==
    [][\A p \in Procs :
         (ncalls' # ncalls /\ calls'[p].op = "DeleteAuthor")
            => \A id \in AuthorIDs, fail \in Failures :
                  DeleteAuthor(p, id, fail)
                     => /\ Len(books') = Len(books)
                        /\ \A b \in 1..Len(books) :
                              /\ books'[b].authorID = books[b].authorID
                              /\ books'[b].name = books[b].name
                              /\ books'[b].isbn = books[b].isbn
                              /\ books'[b].deleted = books[b].deleted
                        /\ (~fail /\ id \in Live(authors))
                              => /\ calls'[p].code = Success
                                 /\ authors'[id].deleted
                                 /\ \A b \in Live(books) :
                                       books[b].authorID = id
                                          => b \in Live(books') /\ books'[b].authorID = id]_vars

\* the table of books is full, a DeleteAuthor has returned Success, and every
\* non-deleted book references a deleted author
C30_Witness ==
    /\ \E p \in Procs : Returned(p, "DeleteAuthor", Success)
    /\ Len(books) = MaxBookRows
    /\ Live(books) # {}
    /\ \A b \in Live(books) :
          books[b].authorID \in 1..Len(authors) /\ authors[books[b].authorID].deleted

====
